---- MODULE Spec2Model ----
(***************************************************************************)
(* Model of the CW link engine of openclaw-channel-cqlaw.                  *)
(*                                                                         *)
(* Transmitter (src/src/service.ts): every public method is an action; an  *)
(* async method is cut at each await into one action per run-to-completion *)
(* segment, so that other operations interleave exactly where the event    *)
(* loop lets them.  Text is a sequence of one-character strings, so that   *)
(* sanitizeForCw and formatForCw are computed, not assumed.                *)
(* Time is the value of Date.now() in ms.                                  *)
(*                                                                         *)
(* FldigiPoller (src/unnamed/part_013) and its SentenceBuffer              *)
(* (src/src/qso-memory.ts): start(), stop(), each timer callback and each  *)
(* continuation after an await is an action.  The event loop holds the     *)
(* pending timers and the suspended calls, as many as the code creates.    *)
(***************************************************************************)
EXTENDS Integers, Sequences, FiniteSets, TLC

\* ------------------------------------------------------------------ bounds
\* Number of public operations invoked in one behaviour.
MaxOps == 3
\* Number of clock advances in one behaviour.
MaxTicks == 2
\* Largest detected receive speed offered to send() in SpecSpeed.
MaxRxWpm == 64
\* Number of clock advances in one behaviour of the poller.
MaxPollerTicks == 3
\* Number of clock advances in one behaviour of SpecBackoff.
MaxBackoffTicks == 8
\* Number of start() calls and decoder events in one behaviour of SpecPeer.
MaxPeerOps == 4
MaxSessionOps == 5
MaxLiveOps == 3
MaxLiveTicks == 4
MaxFramerOps == 3
MaxFramerTicks == 2
MaxCalls == 2
MaxChunks == 3

\* ------------------------------------------------------- program constants
TX_COOLDOWN_MS == 500
LEGAL_ID_INTERVAL_MS == 10 * 60 * 1000
LISTEN_BEFORE_TX_MS == 10000
QRL_WAIT_MS == 5000
\* XmlRpcClient: options.timeoutMs ?? 5000
RPC_TIMEOUT_MS == 5000
MAX_RESPONSE_BYTES == 1000000
\* TX_DEFAULTS.maxDurationSeconds, TX_DEFAULTS.wpm, CONFIG_DEFAULTS.frequency
DefaultMaxDurationSeconds == 120
DefaultWpm == 20
DefaultFrequency == 7030000
\* CONFIG_DEFAULTS.fldigi.pollingIntervalMs
DefaultPollingIntervalMs == 250
\* FldigiPoller
BACKOFF_INITIAL_MS == 1000
BACKOFF_MAX_MS == 30000
SIGNAL_SAMPLE_INTERVAL_MS == 1000
\* new SentenceBuffer(..., { silenceThresholdMs: 3000 })
SilenceThresholdMs == 3000
\* modem.get_wpm of the decoder
DecoderWpm == 22
UNKNOWN_PEER == <<"U", "N", "K", "N", "O", "W", "N">>

\* ------------------------------------------------------------------- text
Lower == <<"a", "b", "c", "d", "e", "f", "g", "h", "i", "j", "k", "l", "m",
           "n", "o", "p", "q", "r", "s", "t", "u", "v", "w", "x", "y", "z">>
Upper == <<"A", "B", "C", "D", "E", "F", "G", "H", "I", "J", "K", "L", "M",
           "N", "O", "P", "Q", "R", "S", "T", "U", "V", "W", "X", "Y", "Z">>
Range(s) == {s[i] : i \in DOMAIN s}

\* String.prototype.toUpperCase, one character
ToUpper(c) ==
  IF \E i \in DOMAIN Lower : Lower[i] = c
  THEN Upper[CHOOSE i \in DOMAIN Lower : Lower[i] = c]
  ELSE c

\* /[A-Z0-9 .,?!'"\/()&:;=+\-_@]/
VALID_CW_CHARS ==
  Range(Upper) \cup
  {"0", "1", "2", "3", "4", "5", "6", "7", "8", "9", " ", ".", ",", "?", "!",
   "'", "\"", "/", "(", ")", "&", ":", ";", "=", "+", "-", "_", "@"}

MapUpper(s) == [i \in DOMAIN s |-> ToUpper(s[i])]
IsValidCw(c) == c \in VALID_CW_CHARS

\* .replace(/\s+/g, " "): after the filter the only whitespace left is " "
RECURSIVE CollapseSpaces(_)
CollapseSpaces(s) ==
  IF Len(s) <= 1 THEN s
  ELSE IF s[1] = " " /\ s[2] = " " THEN CollapseSpaces(Tail(s))
  ELSE <<s[1]>> \o CollapseSpaces(Tail(s))

\* .trim()
RECURSIVE TrimLeft(_)
TrimLeft(s) == IF s # <<>> /\ s[1] = " " THEN TrimLeft(Tail(s)) ELSE s
RECURSIVE TrimRight(_)
TrimRight(s) ==
  IF s # <<>> /\ s[Len(s)] = " " THEN TrimRight(SubSeq(s, 1, Len(s) - 1)) ELSE s
Trim(s) == TrimRight(TrimLeft(s))

sanitizeForCw(text) ==
  Trim(CollapseSpaces(SelectSeq(MapUpper(text), IsValidCw)))

StartsWith(s, p) == Len(p) <= Len(s) /\ SubSeq(s, 1, Len(p)) = p
EndsWith(s, p) == Len(p) <= Len(s) /\ SubSeq(s, Len(s) - Len(p) + 1, Len(s)) = p
Includes(s, p) ==
  \E i \in 1..(Len(s) - Len(p) + 1) : SubSeq(s, i, i + Len(p) - 1) = p

Intents == {"cq", "reply", "signoff", "default"}
CLOSING_PROSIGN(intent) ==
  CASE intent = "cq" -> <<"K">>
    [] intent = "reply" -> <<"K", "N">>
    [] intent = "signoff" -> <<"S", "K">>
    [] OTHER -> <<"K", "N">>
ALL_CLOSING_PROSIGNS ==
  {<<" ", "K">>, <<" ", "K", "N">>, <<" ", "S", "K">>, <<" ", "A", "R">>,
   <<" ", "B", "K">>}

\* the empty sequence stands for an omitted peerCall
formatAddressing(text, intent, ownCall, peerCall) ==
  IF intent = "cq"
  THEN IF Includes(text, <<"D", "E", " ">> \o ownCall)
       THEN text
       ELSE text \o <<" ", "D", "E", " ">> \o ownCall
  ELSE IF peerCall # <<>>
       THEN IF StartsWith(text, peerCall \o <<" ", "D", "E", " ">> \o ownCall)
            THEN text
            ELSE peerCall \o <<" ", "D", "E", " ">> \o ownCall \o <<" ">> \o text
       ELSE text

formatForCw(text, intent, ownCall, peerCall) ==
  LET result == formatAddressing(text, intent, ownCall, peerCall)
  IN IF \E p \in ALL_CLOSING_PROSIGNS : EndsWith(result, p)
     THEN result
     ELSE result \o <<" ">> \o CLOSING_PROSIGN(intent)

\* ------------------------------------------------------------------ speed
Max(a, b) == IF a >= b THEN a ELSE b
Min(a, b) == IF a <= b THEN a ELSE b

\* a match that rounds up to the next even speed
resolveWpm_RoundUp(detectedRxWpm, defaultWpm) ==
  IF detectedRxWpm # 0 /\ detectedRxWpm >= 5
  THEN Max(5, Min(((detectedRxWpm + 1) \div 2) * 2, 60))
  ELSE defaultWpm

\* detectedRxWpm = 0 stands for undefined (both are falsy)
resolveWpm(detectedRxWpm, defaultWpm) ==
  IF detectedRxWpm # 0 /\ detectedRxWpm >= 5
  THEN Max(5, Min((detectedRxWpm \div 2) * 2, 60))
  ELSE defaultWpm

\* ------------------------------------------------------------ configuration
PA3XYZ == <<"P", "A", "3", "X", "Y", "Z">>
DL2ABC == <<"D", "L", "2", "A", "B", "C">>
QRL == <<"Q", "R", "L", "?">>

\* resolveConfig(): tx.enabled, tx.inhibit and tx.callsign vary, the rest are
\* the defaults
Configs ==
  [enabled : BOOLEAN, inhibit : BOOLEAN, callsign : {<<>>, PA3XYZ},
   wpm : {DefaultWpm}, maxDurationSeconds : {DefaultMaxDurationSeconds},
   frequency : {DefaultFrequency}]

\* arguments of send(text, detectedRxWpm, intent, peerCall)
SendInputs ==
  { [text |-> <<"t", "n", "x", " ", "7", "3">>, rx |-> 0, intent |-> "default",
     peer |-> <<>>],
    [text |-> <<"T", "N", "X", " ", "D", "E", " ">> \o PA3XYZ \o <<" ", "S", "K">>,
     rx |-> 23, intent |-> "signoff", peer |-> DL2ABC] }

\* values a text.get_rx_length response can carry
RxLengths == {0, 1}

Procs == {"s1", "s2"}

\* --------------------------------------------------------------------- state
VARIABLES
  config,                  \* ChannelConfig given to the constructor
  now,                     \* Date.now()
  ticks,                   \* clock advances so far
  ops,                     \* public operations invoked so far
  lastTxTime, lastIdTime, listenStartTime, qrlCheckedForFrequency, inhibited,
  txDurationTimer,         \* [state : null | pending | fired, deadline]
  send,                    \* per caller: the send() suspended at an await
  result,                  \* per caller: what its last send() returned
  estop,                   \* emergencyStop() calls suspended at each await
  wd,                      \* watchdog callbacks suspended at each await
  qrl,                     \* the checkQrl() suspended at an await
  qrlResult,               \* what the last checkQrl() returned
  fldigi,                  \* what the decoder was asked: last method, txTexts, wpmSet,
                           \*   and the transmit speed it was given (speed)
  txLog,                   \* entries handed to onTransmitLog (less the timestamp)
  legalIds,                \* number of onLegalId callbacks
  ev,                      \* the step just taken
  poller,                  \* fields of the FldigiPoller and of its SentenceBuffer
  loop,                    \* event loop: pending poll/backoff timers, suspended
                           \*   tryConnect() and poll() calls, next handle
  rxBuffer,                \* the decoder's RX text buffer
  delivered,               \* calls of onMessage, in order
  statuses,                \* calls of onStatusChange, in order
  phist,                   \* history of the poller, kept apart from the fields
  transport,               \* the XmlRpcClient.call() in progress
  hist                     \* history of the calls made, kept apart from the fields:
                           \*   stopLatched: inhibit asked for (tx.inhibit or
                           \*     emergencyStop()) and clearInhibit() not called since
                           \*   marks, listenAt: markListenStart() calls, time of the last
                           \*   okCount, lastOkAt: send() successes, time of the last
                           \*   idAt: time of the last success whose text carried the ID
                           \*   armed: a success since the last emergencyStop(),
                           \*     destroy() or firing of the watchdog
                           \*   wdFired, wdRx: watchdog callbacks run / that issued main.rx

vars ==
  <<config, now, ticks, ops, lastTxTime, lastIdTime, listenStartTime,
    qrlCheckedForFrequency, inhibited, txDurationTimer, send, result, estop, wd,
    qrl, qrlResult, fldigi, txLog, legalIds, ev, hist,
    poller, loop, rxBuffer, delivered, statuses, phist, transport>>

pollerVars == <<poller, loop, rxBuffer, delivered, statuses, phist, transport>>

transmitterVars ==
  <<config, lastTxTime, lastIdTime, listenStartTime,
    qrlCheckedForFrequency, inhibited, txDurationTimer, send, result, estop, wd,
    qrl, qrlResult, fldigi, txLog, legalIds, hist>>

guardVars ==
  <<lastTxTime, lastIdTime, listenStartTime, qrlCheckedForFrequency, inhibited,
    txDurationTimer>>

NoTimer == [state |-> "null", deadline |-> 0]
NoCall == [id |-> 0, latched |-> FALSE, cooling |-> FALSE, listened |-> FALSE,
           overlap |-> {}, rx |-> 0, intent |-> "default"]
IdleSend == [pc |-> "idle", finalText |-> <<>>, txWpm |-> 0, idAppended |-> FALSE,
             idDue |-> FALSE, txIndex |-> 0, call |-> NoCall]
NoResult == [status |-> "none", error |-> "", transmitted |-> <<>>,
             idAppended |-> FALSE, idDue |-> FALSE, txIndex |-> 0, wpm |-> 0,
             call |-> NoCall]
IdleQrl == [pc |-> "idle", id |-> 0, called |-> {}, keyed |-> FALSE,
            rxBefore |-> 0, wake |-> 0, wrote |-> FALSE,
            started |-> FALSE, gates |-> ""]
NoQrlResult == [status |-> "none", called |-> {}, keyed |-> FALSE,
                clear |-> FALSE, wrote |-> FALSE,
                started |-> FALSE, gates |-> ""]

\* FldigiPoller field initialisers and constructor; SentenceBuffer fields.
\* pollTimer and silenceTimer: 0 stands for null, pollTimer holds a handle,
\* silenceTimer the time at which the timer is due.
NewPoller ==
  [running |-> FALSE, pollTimer |-> 0, rxOffset |-> 0, status |-> "disconnected",
   backoffMs |-> BACKOFF_INITIAL_MS, lastSignalSampleAt |-> 0, detectedWpm |-> 0,
   currentPeer |-> UNKNOWN_PEER,
   buffer |-> <<>>, silenceTimer |-> 0]

\* retries: delays of the reconnects scheduled since start() or the last
\*   successful connect
\* forced: utterances delivered by the flush of the catch block of poll()
\* resets: polls that found the remote buffer shorter than the cursor
\* since: value of resets when the oldest text of the accumulator was pushed
\* stops: stop() calls; starts: start() calls
\* discarded: those of them that found a pending accumulator
\* XmlRpcClient.call(): no call made yet.  n: the calls made; pc: where the
\* request is; settled: the flag of the promise executor; events: the 'data'
\* events so far; totalBytes and
\* chunks: the bytes counted and the bytes kept by the two 'data' listeners;
\* destroyed: req.destroy() was called; outcomes: the resolve() and reject()
\* calls made.
NoRequest ==
  [n |-> 0, pc |-> "idle", settled |-> FALSE, events |-> 0, totalBytes |-> 0,
   chunks |-> 0,
   fault |-> FALSE, destroyed |-> FALSE, outcomes |-> <<>>]

\* framer: the calls made on a SentenceBuffer driven on its own
\* synced: the remote length at the last successful connect
\* old: 1 once a read pushed to the framer began before that length
\* upto: where the last read pushed to the framer ended, or the connect length
\* gaps: 1 once a read pushed to the framer did not begin there
\* logged: synced, old, upto and gaps are kept (they are left alone otherwise)
NoPollerHistory ==
  [resets |-> 0, since |-> 0, stops |-> 0, starts |-> 0, discarded |-> 0,
   forced |-> 0, retries |-> <<>>, framer |-> <<>>, synced |-> 0, old |-> 0,
   upto |-> 0, gaps |-> 0, logged |-> FALSE]

\* a history that keeps track of the reads
ReadsLogged == [NoPollerHistory EXCEPT !.logged = TRUE]

\* the history of a successful connect that found len characters
Synced(h, len) ==
  IF h.logged THEN [h EXCEPT !.synced = len, !.upto = len] ELSE h

\* the history of a read of [start, len) that is pushed to the framer
Read(h, start, len) ==
  IF h.logged
  THEN [h EXCEPT !.old = IF start < h.synced THEN 1 ELSE @,
                 !.gaps = IF start # h.upto THEN 1 ELSE @,
                 !.upto = len]
  ELSE h

\* constructor, lines 109-121, with the history h
InitWith(h) ==
  /\ config \in Configs
  /\ now = 1
  /\ ticks = 0
  /\ ops = 0
  /\ lastTxTime = 0
  /\ lastIdTime = 0
  /\ listenStartTime = 0
  /\ qrlCheckedForFrequency = 0
  /\ inhibited = config.inhibit
  /\ txDurationTimer = NoTimer
  /\ send = [p \in Procs |-> IdleSend]
  /\ result = [p \in Procs |-> NoResult]
  /\ estop = [abortTx |-> 0, stopTx |-> 0]
  /\ wd = [abortTx |-> 0, stopTx |-> 0]
  /\ qrl = IdleQrl
  /\ qrlResult = NoQrlResult
  /\ fldigi = [last |-> "", txTexts |-> <<>>, wpmSet |-> 0, wpmBy |-> 0, speed |-> 0,
                lastWrite |-> [by |-> 0, speedBy |-> 0], started |-> 0]
  /\ txLog = <<>>
  /\ legalIds = 0
  /\ ev = [op |-> "new", how |-> "return", who |-> ""]
  /\ hist = [stopLatched |-> config.inhibit, marks |-> 0, listenAt |-> 0,
             okCount |-> 0, lastOkAt |-> 0, idAt |-> 0, armed |-> FALSE,
             wdFired |-> 0, wdRx |-> 0]
  /\ poller = NewPoller
  /\ loop = [timers |-> {}, calls |-> {}, next |-> 1]
  /\ rxBuffer = <<>>
  /\ delivered = <<>>
  /\ statuses = <<>>
  /\ phist = h
  /\ transport = NoRequest

Init == InitWith(NoPollerHistory)

Event(op, how, who) == [op |-> op, how |-> how, who |-> who]

\* one XML-RPC request leaving the client
Issue(f, method) == [f EXCEPT !.last = method]

\* -------------------------------------------------------------- the gates
\* preflightChecks(), "" stands for null
preflightChecks ==
  IF ~config.enabled THEN "disabled"
  ELSE IF inhibited THEN "inhibited"
  ELSE IF config.callsign = <<>> THEN "callsign"
  ELSE ""

checkCooldown ==
  LET elapsed == now - lastTxTime
  IN IF lastTxTime > 0 /\ elapsed < TX_COOLDOWN_MS THEN "cooldown" ELSE ""

\* a guard that takes a listen period never started as started at time 0
checkListenGuard_FromZero ==
  IF now - listenStartTime < LISTEN_BEFORE_TX_MS THEN "listen" ELSE ""

checkListenGuard ==
  IF listenStartTime = 0 THEN "listen"
  ELSE IF now - listenStartTime < LISTEN_BEFORE_TX_MS THEN "listen"
  ELSE ""

isLegalIdDue ==
  IF lastIdTime = 0 THEN TRUE ELSE now - lastIdTime >= LEGAL_ID_INTERVAL_MS

\* clearDurationTimer(): a fired handle is truthy, clearTimeout on it does nothing
clearDurationTimer(t) == IF t.state # "null" THEN NoTimer ELSE t

\* startDurationTimer()
startDurationTimer(t) ==
  [state |-> "pending", deadline |-> now + config.maxDurationSeconds * 1000]

\* ------------------------------------------------------------ FldigiClient
\* the XML-RPC method each FldigiClient method calls
FldigiMethod(m) ==
  CASE m = "setWpm" -> "modem.set_carrier"
    [] m = "sendTxText" -> "text.add_tx"
    [] m = "startTx" -> "main.tx"
    [] m = "stopTx" -> "main.rx"
    [] m = "abortTx" -> "main.abort"
    [] m = "getRxLength" -> "text.get_rx_length"

Call(f, m) == Issue(f, FldigiMethod(m))

\* A call that carries a number, and what the decoder makes of it: the
\* decoder sets its transmit speed on modem.set_wpm and ignores the parameter
\* of the other methods.
Wire(f, m, param) ==
  [Call(f, m) EXCEPT !.speed = IF FldigiMethod(m) = "modem.set_wpm" THEN param
                               ELSE @]

\* ------------------------------------------------------------------- clock
\* Pending timers: the duration watchdog and the sleep of checkQrl().
Deadlines ==
  (IF txDurationTimer.state = "pending" THEN {txDurationTimer.deadline} ELSE {})
  \cup (IF qrl.pc = "sleep" THEN {qrl.wake} ELSE {})
  \cup {t.at : t \in loop.timers}
  \cup (IF poller.silenceTimer # 0 THEN {poller.silenceTimer} ELSE {})

TickDeltas ==
  {TX_COOLDOWN_MS \div 2, LISTEN_BEFORE_TX_MS, LEGAL_ID_INTERVAL_MS}
  \cup {d - now : d \in {x \in Deadlines : x > now}}

\* a decoder call is awaiting its response
RpcInFlight ==
  \/ \E p \in Procs : send[p].pc # "idle"
  \/ estop.abortTx + estop.stopTx > 0
  \/ wd.abortTx + wd.stopTx > 0
  \/ qrl.pc \in {"getRxLength", "sendTxText", "startTx", "getRxLength2"}
  \/ loop.calls # {}

\* Time passes; a timer fires when it is due, so time stops at a deadline until
\* the timer has fired; a decoder call settles (response, error or timeout)
\* within the transport's timeout.
TickUpTo(d, max) ==
  /\ ticks < max
  /\ \A x \in Deadlines : now + d <= x
  /\ RpcInFlight => d <= RPC_TIMEOUT_MS
  /\ now' = now + d
  /\ ticks' = ticks + 1
  /\ ev' = Event("tick", "return", "")
  /\ UNCHANGED <<pollerVars, config, ops, guardVars, send, result, estop, wd, qrl, qrlResult,
                 fldigi, txLog, legalIds, hist>>

Tick(d) == TickUpTo(d, MaxTicks)

\* -------------------------------------------------------- synchronous methods
\* markListenStart(), lines 127-129
MarkListenStart ==
  /\ ops < MaxOps
  /\ ops' = ops + 1
  /\ listenStartTime' = now
  /\ hist' = [hist EXCEPT !.listenAt = now, !.marks = @ + 1]
  /\ ev' = Event("markListenStart", "return", "")
  /\ UNCHANGED <<pollerVars, config, now, ticks, lastTxTime, lastIdTime, qrlCheckedForFrequency,
                 inhibited, txDurationTimer, send, result, estop, wd, qrl, qrlResult,
                 fldigi, txLog, legalIds>>

\* clearInhibit(), lines 145-148 (a call that finds the flag clear changes
\* nothing and is left out)
ClearInhibit ==
  /\ ops < MaxOps
  /\ inhibited
  /\ ops' = ops + 1
  /\ inhibited' = FALSE
  /\ hist' = [hist EXCEPT !.stopLatched = FALSE]
  /\ ev' = Event("clearInhibit", "return", "")
  /\ UNCHANGED <<pollerVars, config, now, ticks, lastTxTime, lastIdTime, listenStartTime,
                 qrlCheckedForFrequency, txDurationTimer, send, result, estop, wd,
                 qrl, qrlResult, fldigi, txLog, legalIds>>

\* destroy(), lines 151-153 (a call that finds no timer handle changes nothing
\* and is left out)
Destroy ==
  /\ ops < MaxOps
  /\ txDurationTimer.state # "null"
  /\ ops' = ops + 1
  /\ txDurationTimer' = clearDurationTimer(txDurationTimer)
  /\ ev' = Event("destroy", "return", "")
  /\ hist' = [hist EXCEPT !.armed = FALSE]
  /\ UNCHANGED <<pollerVars, config, now, ticks, lastTxTime, lastIdTime, listenStartTime,
                 qrlCheckedForFrequency, inhibited, send, result, estop, wd, qrl,
                 qrlResult, fldigi, txLog, legalIds>>

\* ------------------------------------------------------------ emergencyStop
\* a catch block that rethrows
emergencyStopOnError_Rethrown == "throw"

\* what the catch block of emergencyStop() makes of a failed decoder call
emergencyStopOnError == "return"

\* an emergencyStop() that leaves the flag as it finds it
emergencyStopInhibit_Untouched == inhibited

\* the inhibited flag as emergencyStop() leaves it, line 133
emergencyStopInhibit == TRUE

\* lines 132-136: up to the first await
EmergencyStop ==
  /\ ops < MaxOps
  /\ ops' = ops + 1
  /\ inhibited' = emergencyStopInhibit
  /\ txDurationTimer' = clearDurationTimer(txDurationTimer)
  /\ fldigi' = Call(fldigi, "abortTx")
  /\ estop' = [estop EXCEPT !.abortTx = @ + 1]
  /\ hist' = [hist EXCEPT !.stopLatched = TRUE, !.armed = FALSE]
  /\ ev' = Event("emergencyStop", "call", "")
  /\ UNCHANGED <<pollerVars, config, now, ticks, lastTxTime, lastIdTime, listenStartTime,
                 qrlCheckedForFrequency, send, result, wd, qrl, qrlResult, txLog,
                 legalIds>>

\* lines 136-137: abortTx settled
EmergencyStopAbortDone(ok) ==
  /\ estop.abortTx > 0
  /\ IF ok
     THEN /\ fldigi' = Call(fldigi, "stopTx")
          /\ estop' = [abortTx |-> estop.abortTx - 1, stopTx |-> estop.stopTx + 1]
          /\ ev' = Event("emergencyStop", "await", "")
     ELSE /\ fldigi' = fldigi
          /\ estop' = [estop EXCEPT !.abortTx = @ - 1]
          /\ ev' = Event("emergencyStop", emergencyStopOnError, "abortTx failed")
  /\ UNCHANGED <<pollerVars, config, now, ticks, ops, guardVars, send, result, wd, qrl,
                 qrlResult, txLog, legalIds, hist>>

\* lines 137-142: stopTx settled
EmergencyStopStopDone(ok) ==
  /\ estop.stopTx > 0
  /\ estop' = [estop EXCEPT !.stopTx = @ - 1]
  /\ ev' = IF ok THEN Event("emergencyStop", "return", "")
           ELSE Event("emergencyStop", emergencyStopOnError, "stopTx failed")
  /\ UNCHANGED <<pollerVars, config, now, ticks, ops, guardVars, send, result, wd, qrl,
                 qrlResult, fldigi, txLog, legalIds, hist>>

\* ----------------------------------------------------------------- watchdog
\* the timer callback of startDurationTimer(), lines 330-333
WatchdogFire ==
  /\ txDurationTimer.state = "pending"
  /\ now >= txDurationTimer.deadline
  /\ txDurationTimer' = [txDurationTimer EXCEPT !.state = "fired"]
  /\ fldigi' = Call(fldigi, "abortTx")
  /\ wd' = [wd EXCEPT !.abortTx = @ + 1]
  /\ ev' = Event("watchdog", "fire", "")
  /\ hist' = [hist EXCEPT !.wdFired = @ + 1, !.armed = FALSE]
  /\ UNCHANGED <<pollerVars, config, now, ticks, ops, lastTxTime, lastIdTime, listenStartTime,
                 qrlCheckedForFrequency, inhibited, send, result, estop, qrl,
                 qrlResult, txLog, legalIds>>

\* lines 333-334
WatchdogAbortDone(ok) ==
  /\ wd.abortTx > 0
  /\ IF ok
     THEN /\ fldigi' = Call(fldigi, "stopTx")
          /\ wd' = [abortTx |-> wd.abortTx - 1, stopTx |-> wd.stopTx + 1]
          /\ hist' = [hist EXCEPT !.wdRx = @ + 1]
          /\ ev' = Event("watchdog", "await", "")
     ELSE /\ fldigi' = fldigi
          /\ wd' = [wd EXCEPT !.abortTx = @ - 1]
          /\ hist' = hist
          /\ ev' = Event("watchdog", "return", "abortTx failed")
  /\ UNCHANGED <<pollerVars, config, now, ticks, ops, guardVars, send, result, estop, qrl,
                 qrlResult, txLog, legalIds>>

\* lines 334-337
WatchdogStopDone(ok) ==
  /\ wd.stopTx > 0
  /\ wd' = [wd EXCEPT !.stopTx = @ - 1]
  /\ ev' = Event("watchdog", "return", IF ok THEN "" ELSE "stopTx failed")
  /\ UNCHANGED <<pollerVars, config, now, ticks, ops, guardVars, send, result, estop, qrl,
                 qrlResult, fldigi, txLog, legalIds, hist>>

\* --------------------------------------------------------------------- send
\* send() with the listen guard evaluated before the other gates
sendGate_ListenFirst(in) ==
  IF checkListenGuard # "" THEN checkListenGuard
  ELSE IF preflightChecks # "" THEN preflightChecks
  ELSE IF checkCooldown # "" THEN checkCooldown
  ELSE IF sanitizeForCw(in.text) = <<>> THEN "empty"
  ELSE ""

\* lines 162-177: the first gate that rejects, "" when all pass
sendGate(in) ==
  IF preflightChecks # "" THEN preflightChecks
  ELSE IF checkCooldown # "" THEN checkCooldown
  ELSE IF checkListenGuard # "" THEN checkListenGuard
  ELSE IF sanitizeForCw(in.text) = <<>> THEN "empty"
  ELSE ""

\* lines 186-188: what the catch block around setWpm() makes of a failure
sendOnSetWpmError == "return"

\* a catch block that rethrows
sendOnTxError_Rethrown == "throw"

\* lines 204-207: what the catch block around sendTxText() and startTx() makes
\* of a failure
sendOnTxError == "return"

\* line 194
legalIdSuffix == <<" ", "D", "E", " ">> \o config.callsign

\* line 195: lastIdTime once the identification has been appended to the text
lastIdTimeOnAppend == now

\* lines 214-216: lastIdTime once the transmission has started
lastIdTimeOnSuccess == IF lastIdTime = 0 THEN now ELSE lastIdTime

\* a success that does not record its time
lastTxTimeOnSuccess_Stale == lastTxTime

\* line 211
lastTxTimeOnSuccess == now

\* a success that leaves the watchdog as it finds it
armOnSuccess_Unarmed == txDurationTimer

\* line 209
armOnSuccess == startDurationTimer(txDurationTimer)

\* history only: no transmission has ever carried the identification, or the
\* last one that did is at least the interval ago
IdentificationDue ==
  hist.idAt = 0 \/ now - hist.idAt >= LEGAL_ID_INTERVAL_MS

Rejected(call, error) ==
  [status |-> "rejected", error |-> error, transmitted |-> <<>>,
   idAppended |-> FALSE, idDue |-> FALSE, txIndex |-> 0, wpm |-> 0, call |-> call]

Failed(sd, error) ==
  [status |-> "error", error |-> error, transmitted |-> <<>>,
   idAppended |-> sd.idAppended, idDue |-> sd.idDue, txIndex |-> sd.txIndex,
   wpm |-> sd.txWpm, call |-> sd.call]

\* what the caller's situation is when send() is invoked (history only)
CallOf(in) ==
  [id |-> ops + 1,
   latched |-> hist.stopLatched,
   cooling |-> hist.lastOkAt > 0 /\ now - hist.lastOkAt < TX_COOLDOWN_MS,
   listened |-> hist.listenAt > 0 /\ now - hist.listenAt >= LISTEN_BEFORE_TX_MS,
   overlap |-> {send[q].call.id : q \in {r \in Procs : send[r].pc # "idle"}},
   rx |-> in.rx, intent |-> in.intent]

\* Callers are interchangeable: the second one is a caller that does not wait
\* for the first one's send() to return.
CallerInTurn(p) == p = "s1" \/ send["s1"].pc # "idle"

\* lines 159-185: the gates, sanitize, format, resolve the speed, call setWpm
SendBegin(p, in) ==
  /\ ops < MaxOps
  /\ send[p].pc = "idle"
  /\ CallerInTurn(p)
  /\ ops' = ops + 1
  /\ IF sendGate(in) # ""
     THEN /\ result' = [result EXCEPT ![p] = Rejected(CallOf(in), sendGate(in))]
          /\ ev' = Event("send", "return", p)
          /\ UNCHANGED <<send, fldigi>>
     ELSE LET formatted == formatForCw(sanitizeForCw(in.text), in.intent,
                                       config.callsign, in.peer)
              txWpm == resolveWpm(in.rx, config.wpm)
          IN /\ send' = [send EXCEPT ![p] =
                           [pc |-> "setWpm", finalText |-> formatted,
                            txWpm |-> txWpm, idAppended |-> FALSE,
                            idDue |-> FALSE, txIndex |-> 0, call |-> CallOf(in)]]
             /\ fldigi' = [Wire(fldigi, "setWpm", txWpm) EXCEPT !.wpmSet = txWpm,
                                                        !.wpmBy = ops + 1]
             /\ ev' = Event("send", "await", p)
             /\ result' = result
  /\ UNCHANGED <<pollerVars, config, now, ticks, guardVars, estop, wd, qrl, qrlResult, txLog,
                 legalIds, hist>>

\* lines 185-202: setWpm settled; legal identification; call sendTxText
SendSetWpmDone(p, ok) ==
  /\ send[p].pc = "setWpm"
  /\ IF ~ok
     THEN /\ result' = [result EXCEPT ![p] = Failed(send[p], "setWpm")]
          /\ send' = [send EXCEPT ![p] = IdleSend]
          /\ ev' = Event("send", sendOnSetWpmError, p)
          /\ UNCHANGED <<lastIdTime, legalIds, fldigi>>
     ELSE LET idNeeded == isLegalIdDue
              finalText == IF idNeeded THEN send[p].finalText \o legalIdSuffix
                           ELSE send[p].finalText
          IN /\ lastIdTime' = IF idNeeded THEN lastIdTimeOnAppend ELSE lastIdTime
             /\ legalIds' = IF idNeeded THEN legalIds + 1 ELSE legalIds
             /\ send' = [send EXCEPT ![p].pc = "sendTxText",
                                     ![p].finalText = finalText,
                                     ![p].idAppended = idNeeded,
                                     ![p].idDue = IdentificationDue,
                                     ![p].txIndex = Len(fldigi.txTexts) + 1]
             /\ fldigi' = [Call(fldigi, "sendTxText") EXCEPT
                             !.txTexts = Append(@, finalText),
                             !.lastWrite = [by |-> send[p].call.id,
                                            speedBy |-> fldigi.wpmBy]]
             /\ ev' = Event("send", "await", p)
             /\ result' = result
  /\ UNCHANGED <<pollerVars, config, now, ticks, ops, lastTxTime, listenStartTime,
                 qrlCheckedForFrequency, inhibited, txDurationTimer, estop, wd, qrl,
                 qrlResult, txLog, hist>>

\* lines 202-203: sendTxText settled; call startTx
SendTxTextDone(p, ok) ==
  /\ send[p].pc = "sendTxText"
  /\ IF ~ok
     THEN /\ result' = [result EXCEPT ![p] = Failed(send[p], "fldigi")]
          /\ send' = [send EXCEPT ![p] = IdleSend]
          /\ ev' = Event("send", sendOnTxError, p)
          /\ fldigi' = fldigi
     ELSE /\ send' = [send EXCEPT ![p].pc = "startTx"]
          /\ fldigi' = Call(fldigi, "startTx")
          /\ ev' = Event("send", "await", p)
          /\ result' = result
  /\ UNCHANGED <<pollerVars, config, now, ticks, ops, guardVars, estop, wd, qrl, qrlResult,
                 txLog, legalIds, hist>>

\* lines 203-229: startTx settled; watchdog, lastTxTime, log, result
SendStartTxDone(p, ok) ==
  /\ send[p].pc = "startTx"
  /\ send' = [send EXCEPT ![p] = IdleSend]
  /\ IF ~ok
     THEN /\ result' = [result EXCEPT ![p] = Failed(send[p], "fldigi")]
          /\ ev' = Event("send", sendOnTxError, p)
          /\ UNCHANGED <<txDurationTimer, lastTxTime, lastIdTime, txLog, hist,
                         fldigi>>
     ELSE /\ ev' = Event("send", "return", p)
          /\ fldigi' = [fldigi EXCEPT !.started = @ + 1]
          /\ txDurationTimer' = armOnSuccess
          /\ lastTxTime' = lastTxTimeOnSuccess
          /\ lastIdTime' = lastIdTimeOnSuccess
          /\ txLog' = Append(txLog, [text |-> send[p].finalText,
                                     wpm |-> send[p].txWpm,
                                     frequency |-> config.frequency,
                                     callsign |-> config.callsign])
          /\ result' = [result EXCEPT ![p] =
                          [status |-> "success", error |-> "",
                           transmitted |-> send[p].finalText,
                           idAppended |-> send[p].idAppended,
                           idDue |-> send[p].idDue /\ IdentificationDue,
                           txIndex |-> send[p].txIndex,
                           wpm |-> send[p].txWpm, call |-> send[p].call]]
          /\ hist' = [hist EXCEPT !.lastOkAt = now,
                                  !.okCount = @ + 1,
                                  !.idAt = IF send[p].idAppended THEN now ELSE @,
                                  !.armed = TRUE]
  /\ UNCHANGED <<pollerVars, config, now, ticks, ops, listenStartTime, qrlCheckedForFrequency,
                 inhibited, estop, wd, qrl, qrlResult, legalIds>>

\* ----------------------------------------------------------------- checkQrl
\* a checkQrl() without gates
checkQrlGate_None == ""

\* lines 237-238: the gates checkQrl() applies
checkQrlGate == preflightChecks

\* what holds of each gate of send() when checkQrl() is invoked (history only)
GatesNow ==
  [enabled |-> config.enabled,
   inhibited |-> inhibited,
   callsign |-> config.callsign # <<>>,
   cooldown |-> hist.lastOkAt > 0 /\ now - hist.lastOkAt < TX_COOLDOWN_MS,
   listened |-> hist.listenAt > 0 /\ now - hist.listenAt >= LISTEN_BEFORE_TX_MS]

QrlReturn(clear) ==
  [status |-> "returned", called |-> qrl.called, keyed |-> qrl.keyed,
   clear |-> clear, wrote |-> qrl.wrote,
   started |-> qrl.started, gates |-> qrl.gates]

\* lines 236-242: the gates, then getRxLength
CheckQrlBegin ==
  /\ ops < MaxOps
  /\ qrl.pc = "idle"
  /\ ops' = ops + 1
  /\ IF checkQrlGate # ""
     THEN /\ qrlResult' = [status |-> "returned", called |-> {}, keyed |-> FALSE,
                           clear |-> FALSE, wrote |-> FALSE,
                           started |-> FALSE, gates |-> GatesNow]
          /\ ev' = Event("checkQrl", "return", "")
          /\ UNCHANGED <<qrl, fldigi>>
     ELSE /\ qrl' = [IdleQrl EXCEPT !.pc = "getRxLength", !.gates = GatesNow,
                                    !.id = ops + 1,
                                    !.called = {FldigiMethod("getRxLength")}]
          /\ fldigi' = Call(fldigi, "getRxLength")
          /\ ev' = Event("checkQrl", "await", "")
          /\ qrlResult' = qrlResult
  /\ UNCHANGED <<pollerVars, config, now, ticks, guardVars, send, result, estop, wd, txLog,
                 legalIds, hist>>

\* lines 242-244: rxBefore read (failed when len < 0); write "QRL?"
CheckQrlRxBeforeDone(ok, len) ==
  /\ qrl.pc = "getRxLength"
  /\ IF ~ok
     THEN /\ qrlResult' = QrlReturn(FALSE)
          /\ qrl' = IdleQrl
          /\ ev' = Event("checkQrl", "return", "")
          /\ fldigi' = fldigi
     ELSE /\ qrl' = [qrl EXCEPT !.pc = "sendTxText", !.rxBefore = len,
                                !.wrote = TRUE,
                                !.called = @ \cup {FldigiMethod("sendTxText")}]
          /\ fldigi' = [Call(fldigi, "sendTxText") EXCEPT
                          !.txTexts = Append(@, QRL),
                          !.lastWrite = [by |-> qrl.id, speedBy |-> fldigi.wpmBy]]
          /\ ev' = Event("checkQrl", "await", "")
          /\ qrlResult' = qrlResult
  /\ UNCHANGED <<pollerVars, config, now, ticks, ops, guardVars, send, result, estop, wd,
                 txLog, legalIds, hist>>

\* lines 244-245
CheckQrlTxTextDone(ok) ==
  /\ qrl.pc = "sendTxText"
  /\ IF ~ok
     THEN /\ qrlResult' = QrlReturn(FALSE)
          /\ qrl' = IdleQrl
          /\ ev' = Event("checkQrl", "return", "")
          /\ fldigi' = fldigi
     ELSE /\ qrl' = [qrl EXCEPT !.pc = "startTx", !.started = TRUE,
                                !.called = @ \cup {FldigiMethod("startTx")}]
          /\ fldigi' = Call(fldigi, "startTx")
          /\ ev' = Event("checkQrl", "await", "")
          /\ qrlResult' = qrlResult
  /\ UNCHANGED <<pollerVars, config, now, ticks, ops, guardVars, send, result, estop, wd,
                 txLog, legalIds, hist>>

\* lines 245-250: startTx settled; sleep(QRL_WAIT_MS)
CheckQrlStartTxDone(ok) ==
  /\ qrl.pc = "startTx"
  /\ IF ~ok
     THEN /\ qrlResult' = QrlReturn(FALSE)
          /\ qrl' = IdleQrl
          /\ ev' = Event("checkQrl", "return", "")
          /\ fldigi' = fldigi
     ELSE /\ qrl' = [qrl EXCEPT !.pc = "sleep", !.wake = now + QRL_WAIT_MS,
                                !.keyed = TRUE]
          /\ fldigi' = [fldigi EXCEPT !.started = @ + 1]
          /\ ev' = Event("checkQrl", "await", "")
          /\ qrlResult' = qrlResult
  /\ UNCHANGED <<pollerVars, config, now, ticks, ops, guardVars, send, result, estop, wd,
                 txLog, legalIds, hist>>

\* lines 250-253: the sleep is over; getRxLength again
CheckQrlWake ==
  /\ qrl.pc = "sleep"
  /\ now >= qrl.wake
  /\ qrl' = [qrl EXCEPT !.pc = "getRxLength2"]
  /\ fldigi' = Call(fldigi, "getRxLength")
  /\ ev' = Event("checkQrl", "await", "")
  /\ UNCHANGED <<pollerVars, config, now, ticks, ops, guardVars, send, result, estop, wd,
                 qrlResult, txLog, legalIds, hist>>

\* lines 253-268: rxAfter read; decide
CheckQrlRxAfterDone(ok, len) ==
  /\ qrl.pc = "getRxLength2"
  /\ qrl' = IdleQrl
  /\ ev' = Event("checkQrl", "return", "")
  /\ IF ~ok
     THEN /\ qrlResult' = QrlReturn(FALSE)
          /\ UNCHANGED qrlCheckedForFrequency
     ELSE IF len > qrl.rxBefore
     THEN /\ qrlResult' = QrlReturn(FALSE)
          /\ qrlCheckedForFrequency' = 0
     ELSE /\ qrlResult' = QrlReturn(TRUE)
          /\ qrlCheckedForFrequency' = config.frequency
  /\ UNCHANGED <<pollerVars, config, now, ticks, ops, lastTxTime, lastIdTime, listenStartTime,
                 inhibited, txDurationTimer, send, result, estop, wd, fldigi, txLog,
                 legalIds, hist>>

\* ------------------------------------------------------ callsign extraction
\* The texts of the model are made of letters, digits and spaces, so a
\* word boundary (\b) is the start or end of a word and \s+ is a run of
\* spaces; the forms with a slash (EA8/ON4UN, PA3XYZ/P) do not occur.
Digits == {"0", "1", "2", "3", "4", "5", "6", "7", "8", "9"}
IsDigit(c) == c \in Digits
IsLetter(c) == c \in Range(Upper)
IsAlnum(c) == IsLetter(c) \/ IsDigit(c)

\* the words of a text, in order
RECURSIVE Words(_)
Words(s) ==
  IF s = <<>> THEN <<>>
  ELSE IF s[1] = " " THEN Words(Tail(s))
  ELSE LET n == IF \E i \in DOMAIN s : s[i] = " "
                THEN (CHOOSE i \in DOMAIN s :
                        s[i] = " " /\ \A j \in 1 .. i - 1 : s[j] # " ") - 1
                ELSE Len(s)
       IN <<SubSeq(s, 1, n)>> \o Words(SubSeq(s, n + 1, Len(s)))

\* [A-Z0-9]{1,3}\d[A-Z]{1,5}
STANDARD_CALL(w) ==
  \E k \in 1 .. 3 :
    /\ Len(w) - k - 1 \in 1 .. 5
    /\ \A i \in 1 .. k : IsAlnum(w[i])
    /\ IsDigit(w[k + 1])
    /\ \A i \in k + 2 .. Len(w) : IsLetter(w[i])

\* [A-Z]{1,2}\d{2}[A-Z]{1,6}
SPECIAL_EVENT_CALL(w) ==
  \E k \in 1 .. 2 :
    /\ Len(w) - k - 2 \in 1 .. 6
    /\ \A i \in 1 .. k : IsLetter(w[i])
    /\ IsDigit(w[k + 1]) /\ IsDigit(w[k + 2])
    /\ \A i \in k + 3 .. Len(w) : IsLetter(w[i])

\* \b(CALL_TOKEN)\b on one word
CALL_TOKEN(w) == STANDARD_CALL(w) \/ SPECIAL_EVENT_CALL(w)

CQ == <<"C", "Q">>
DE == <<"D", "E">>

\* first word from i on that is not CQ
RECURSIVE AfterCqs(_, _)
AfterCqs(ws, i) == IF i <= Len(ws) /\ ws[i] = CQ THEN AfterCqs(ws, i + 1) ELSE i

\* matches of CQ_DE_PATTERN from word i on, scanned as RegExp.exec does:
\* the search goes on after the end of each match
RECURSIVE CqCallsFrom(_, _)
CqCallsFrom(ws, i) ==
  IF i > Len(ws) THEN <<>>
  ELSE LET j == AfterCqs(ws, i)
       IN IF ws[i] = CQ /\ j + 1 <= Len(ws) /\ ws[j] = DE /\ CALL_TOKEN(ws[j + 1])
          THEN <<ws[j + 1]>> \o CqCallsFrom(ws, j + 2)
          ELSE CqCallsFrom(ws, i + 1)

\* extractCqCalls(text): the `from` of each match
extractCqCalls(text) == CqCallsFrom(Words(MapUpper(text)), 1)

RECURSIVE ExchangesFrom(_, _)
ExchangesFrom(ws, i) ==
  IF i + 2 > Len(ws) THEN <<>>
  ELSE IF CALL_TOKEN(ws[i]) /\ ws[i + 1] = DE /\ CALL_TOKEN(ws[i + 2])
  THEN <<ws[i + 2]>> \o ExchangesFrom(ws, i + 3)
  ELSE ExchangesFrom(ws, i + 1)

\* extractDirectedExchanges(text): the `from` of each match
extractDirectedExchanges(text) == ExchangesFrom(Words(MapUpper(text)), 1)

\* extractCallsigns(text): each callsign once, in order of first appearance
RECURSIVE CallsignsFrom(_, _, _)
CallsignsFrom(ws, i, seen) ==
  IF i > Len(ws) THEN <<>>
  ELSE IF CALL_TOKEN(ws[i]) /\ ws[i] \notin seen
  THEN <<ws[i]>> \o CallsignsFrom(ws, i + 1, seen \cup {ws[i]})
  ELSE CallsignsFrom(ws, i + 1, seen)

extractCallsigns(text) == CallsignsFrom(Words(MapUpper(text)), 1, {})

\* ----------------------------------------------------------- SentenceBuffer
FLUSH_PROSIGNS ==
  {<<" ", "A", "R">>, <<" ", "S", "K">>, <<" ", "K", "N">>, <<" ", "B", "K">>}
\* / K$/
K_PATTERN == <<" ", "K">>

\* /K$/ in place of / K$/
shouldFlushOnProsign_AnyK(buffer) ==
  LET upper == MapUpper(buffer)
  IN \/ \E prosign \in FLUSH_PROSIGNS : EndsWith(upper, prosign)
     \/ EndsWith(upper, <<"K">>)

shouldFlushOnProsign(buffer) ==
  LET upper == MapUpper(buffer)
  IN \/ \E prosign \in FLUSH_PROSIGNS : EndsWith(upper, prosign)
     \/ EndsWith(upper, K_PATTERN)

\* text.replace(/\s+/g, " ").trim()
normalize(text) == Trim(CollapseSpaces(text))

\* The poller, its framer, the event loop and the two callbacks as one value
\* w, which the methods below transform: p the fields, l the event loop,
\* d the onMessage calls, s the onStatusChange calls, h the history.
World == [p |-> poller, l |-> loop, d |-> delivered, s |-> statuses, h |-> phist]

Becomes(w) ==
  /\ poller' = w.p
  /\ loop' = w.l
  /\ delivered' = w.d
  /\ statuses' = w.s
  /\ phist' = w.h

\* FldigiPoller.handleFlush(): callbacks.onMessage(message, ..., metadata).
\* Each call is recorded with whether the poller was running, the speed in
\* the metadata, and the history of the text it carries.
handleFlush(w, message) ==
  [w EXCEPT !.p.currentPeer = UNKNOWN_PEER,
            !.d = Append(@, [text |-> message, running |-> w.p.running,
                             peer |-> w.p.currentPeer,
                             detectedWpm |-> w.p.detectedWpm,
                             since |-> w.h.since, resets |-> w.h.resets,
                             stops |-> w.h.stops])]

clearSilenceTimer(w) == [w EXCEPT !.p.silenceTimer = 0]

\* a timer that is armed by the first push only
resetSilenceTimer_Once(w) ==
  IF w.p.silenceTimer # 0 THEN w
  ELSE [w EXCEPT !.p.silenceTimer = now + SilenceThresholdMs]

resetSilenceTimer(w) ==
  [clearSilenceTimer(w) EXCEPT !.p.silenceTimer = now + SilenceThresholdMs]

\* flush() without `this.buffer = ""`
flush_Keep(w) ==
  LET message == normalize(w.p.buffer)
      w1 == clearSilenceTimer(w)
  IN IF message # <<>> THEN handleFlush(w1, message) ELSE w1

flush(w) ==
  LET message == normalize(w.p.buffer)
      w1 == [clearSilenceTimer(w) EXCEPT !.p.buffer = <<>>]
  IN IF message # <<>> THEN handleFlush(w1, message) ELSE w1

\* reset() without `this.buffer = ""`
reset_Keep(w) == clearSilenceTimer(w)

reset(w) == clearSilenceTimer([w EXCEPT !.p.buffer = <<>>])

\* push() without `if (!text) return`
push_EmptyToo(w, text) ==
  LET w1 == resetSilenceTimer([w EXCEPT !.p.buffer = @ \o text])
  IN IF shouldFlushOnProsign(w1.p.buffer) THEN flush(w1) ELSE w1

push(w, text) ==
  IF text = <<>> THEN w
  ELSE LET w1 == resetSilenceTimer(
                   [w EXCEPT !.p.buffer = @ \o text,
                             !.h.since = IF w.p.buffer = <<>> THEN w.h.resets
                                         ELSE @])
       IN IF shouldFlushOnProsign(w1.p.buffer) THEN flush(w1) ELSE w1

\* ------------------------------------------------------------- FldigiPoller
setStatus(w, status) ==
  IF w.p.status # status
  THEN [w EXCEPT !.p.status = status, !.s = Append(@, status)]
  ELSE w

\* setTimeout(callback, delay): a new handle, a new pending timer
SetTimeout(w, kind, delay) ==
  [w EXCEPT !.p.pollTimer = w.l.next,
            !.l.timers = @ \cup {[id |-> w.l.next, kind |-> kind,
                                  at |-> now + delay]},
            !.l.next = @ + 1]

\* a poll that is never scheduled again
schedulePoll_Never(w) == w

schedulePoll(w) ==
  IF ~w.p.running THEN w ELSE SetTimeout(w, "poll", DefaultPollingIntervalMs)

\* a backoff that does not grow
nextBackoff_Same(backoffMs) == backoffMs

\* Math.min(this.backoffMs * 2, BACKOFF_MAX_MS)
nextBackoff(backoffMs) == Min(backoffMs * 2, BACKOFF_MAX_MS)

scheduleReconnect(w) ==
  IF ~w.p.running THEN w
  ELSE [SetTimeout(w, "tryConnect", w.p.backoffMs)
          EXCEPT !.p.backoffMs = nextBackoff(w.p.backoffMs),
                 !.h.retries = Append(@, w.p.backoffMs)]

\* an async method reaches its first await: the call is suspended
Suspend(w, fn, pc) ==
  [w EXCEPT !.l.calls = @ \cup {[id |-> w.l.next, fn |-> fn, pc |-> pc,
                                 start |-> 0, len |-> 0]},
            !.l.next = @ + 1]

\* a suspended call goes on to its next await
Await(w, c, c2) == [w EXCEPT !.l.calls = (@ \ {c}) \cup {c2}]

\* a suspended call runs to its end
Settle(w, c) == [w EXCEPT !.l.calls = @ \ {c}]

\* tryConnect() up to `await this.client.connect()`
tryConnect(w) == IF ~w.p.running THEN w ELSE Suspend(w, "tryConnect", "connect")

\* poll() up to `await this.client.getRxLength()`
poll(w) == IF ~w.p.running THEN w ELSE Suspend(w, "poll", "getRxLength")

\* catch block of tryConnect()
tryConnectCatch(w) == scheduleReconnect(setStatus(w, "reconnecting"))

\* a poll that throws away the pending utterance when a call fails
flushOnPollError_Discard(w) == reset(w)

\* catch block of poll(): this.sentenceBuffer.flush()
flushOnPollError(w) == flush(w)

\* catch block of poll()
pollCatch(w) ==
  LET w1 == flushOnPollError(setStatus(w, "reconnecting"))
  IN scheduleReconnect([w1 EXCEPT !.h.forced = @ + Len(w1.d) - Len(w.d)])

\* a poll that keeps the accumulator when the remote buffer has shrunk
resetOnRestart_Kept(w) == w

\* poll(): this.sentenceBuffer.reset() on a buffer reset
resetOnRestart(w) == reset(w)

\* updatePeer(text)
updatePeer(w, text) ==
  LET cqCalls == extractCqCalls(text)
      exchanges == extractDirectedExchanges(text)
      calls == extractCallsigns(text)
  IN IF Len(cqCalls) > 0 THEN [w EXCEPT !.p.currentPeer = cqCalls[Len(cqCalls)]]
     ELSE IF Len(exchanges) > 0
     THEN [w EXCEPT !.p.currentPeer = exchanges[Len(exchanges)]]
     ELSE IF Len(calls) > 0 THEN [w EXCEPT !.p.currentPeer = calls[Len(calls)]]
     ELSE w

\* text.get_rx(start, length) on the decoder's buffer
getRxText(buf, start, length) ==
  SubSeq(buf, start + 1, Min(start + length, Len(buf)))

\* Date.now() is milliseconds since 1970: the first sample of a session,
\* with lastSignalSampleAt = 0, is always due.
SampleDue(w) ==
  \/ w.p.lastSignalSampleAt = 0
  \/ ~(now - w.p.lastSignalSampleAt < SIGNAL_SAMPLE_INTERVAL_MS)

\* poll() after the sampling: pollCount++, schedulePoll()
pollEnd(w, c) == schedulePoll(Settle(w, c))

\* poll() from `await this.sampleSignalMetricsIfDue()`
pollSample(w, c) ==
  IF SampleDue(w)
  THEN Await([w EXCEPT !.p.lastSignalSampleAt = now], c, [c EXCEPT !.pc = "sample"])
  ELSE pollEnd(w, c)

PollerStep(name) ==
  /\ ev' = Event(name, "return", "")
  /\ UNCHANGED <<now, ticks, ops, rxBuffer, transport, transmitterVars>>

\* the call awaited at each point of tryConnect() and poll(), when it fails
Failure(pc) ==
  CASE pc = "connect" -> "connect failed"
    [] pc = "getVersion" -> "getVersion failed"
    [] pc = "getRxLength" -> "getRxLength failed"
    [] pc = "getRxText" -> "getRxText failed"
    [] pc = "sample" -> "sample failed"

\* tryConnect() and poll() await every decoder call inside try/catch, and
\* sampleSignalMetricsIfDue() has a try/catch of its own
pollOnError == "return"

\* the continuation of the suspended call c, its decoder call having
\* succeeded or failed (an error response, no connection, a timeout)
PollerCallback(c, ok) ==
  /\ c \in loop.calls
  /\ ev' = Event(c.fn, IF ok THEN "return" ELSE pollOnError,
                 IF ok THEN "" ELSE Failure(c.pc))
  /\ UNCHANGED <<now, ticks, ops, rxBuffer, transport, transmitterVars>>

PollerOpUpTo(name, max) ==
  /\ ops < max
  /\ ops' = ops + 1
  /\ ev' = Event(name, "return", "")
  /\ UNCHANGED <<now, ticks, transport, transmitterVars>>

PollerOp(name) == PollerOpUpTo(name, MaxOps)

\* start(), up to the first await of tryConnect().  The service starts a
\* poller that is not running (createService: `if (started) return`).
StartCall ==
  /\ ~poller.running
  /\ UNCHANGED rxBuffer
  /\ Becomes(tryConnect(
       [World EXCEPT !.p.running = TRUE, !.p.rxOffset = 0,
                     !.p.currentPeer = UNKNOWN_PEER,
                     !.p.backoffMs = BACKOFF_INITIAL_MS,
                     !.p.lastSignalSampleAt = 0, !.p.detectedWpm = 0,
                     !.h.starts = @ + 1, !.h.retries = <<>>]))

Start == PollerOp("start") /\ StartCall

\* stop()
StopCall ==
  /\ UNCHANGED rxBuffer
  /\ LET w0 == [World EXCEPT !.p.running = FALSE, !.h.stops = @ + 1]
         w1 == IF w0.p.pollTimer # 0
               THEN [w0 EXCEPT !.l.timers = {t \in @ : t.id # w0.p.pollTimer},
                               !.p.pollTimer = 0]
               ELSE w0
     IN Becomes(setStatus(reset(w1), "disconnected"))

Stop == PollerOp("stop") /\ StopCall

\* the timer set by schedulePoll() fires: poll()
PollTimerFire(t) ==
  /\ t \in loop.timers
  /\ t.kind = "poll"
  /\ t.at <= now
  /\ PollerStep("pollTimer")
  /\ Becomes(poll([World EXCEPT !.l.timers = @ \ {t}]))

\* the timer set by scheduleReconnect() fires: tryConnect()
ReconnectTimerFire(t) ==
  /\ t \in loop.timers
  /\ t.kind = "tryConnect"
  /\ t.at <= now
  /\ PollerStep("reconnectTimer")
  /\ Becomes(tryConnect([World EXCEPT !.l.timers = @ \ {t}]))

\* the silence timer of the SentenceBuffer fires: flush()
SilenceTimerFire ==
  /\ poller.silenceTimer # 0
  /\ poller.silenceTimer <= now
  /\ PollerStep("silenceTimer")
  /\ Becomes(flush(World))

\* tryConnect(): client.connect() or client.getVersion() settles
TryConnectVersionDone(c, ok) ==
  /\ PollerCallback(c, ok)
  /\ c.fn = "tryConnect"
  /\ c.pc \in {"connect", "getVersion"}
  /\ Becomes(IF ~ok THEN tryConnectCatch(Settle(World, c))
             ELSE IF c.pc = "connect"
             THEN Await(World, c, [c EXCEPT !.pc = "getVersion"])
             ELSE Await(World, c, [c EXCEPT !.pc = "getRxLength"]))

\* tryConnect(): client.getRxLength() settles
TryConnectRxLengthDone(c, ok) ==
  /\ PollerCallback(c, ok)
  /\ c.fn = "tryConnect"
  /\ c.pc = "getRxLength"
  /\ Becomes(IF ~ok THEN tryConnectCatch(Settle(World, c))
             ELSE schedulePoll(setStatus(
                    [Settle(World, c) EXCEPT !.p.rxOffset = Len(rxBuffer),
                                             !.p.backoffMs = BACKOFF_INITIAL_MS,
                                             !.h.retries = <<>>,
                                             !.h = Synced(@, Len(rxBuffer))],
                    "connected")))

\* poll(): client.getRxLength() settles
PollRxLengthDone(c, ok) ==
  /\ PollerCallback(c, ok)
  /\ c.fn = "poll"
  /\ c.pc = "getRxLength"
  /\ LET currentLength == Len(rxBuffer)
         w1 == IF currentLength < poller.rxOffset
               THEN resetOnRestart(
                      [World EXCEPT !.p.rxOffset = currentLength,
                                    !.h.resets = @ + 1,
                                    !.h.discarded =
                                      IF poller.buffer # <<>> THEN @ + 1 ELSE @])
               ELSE World
     IN Becomes(IF ~ok THEN pollCatch(Settle(World, c))
                ELSE IF currentLength > w1.p.rxOffset
                THEN Await(w1, c, [c EXCEPT !.pc = "getRxText",
                                            !.start = w1.p.rxOffset,
                                            !.len = currentLength])
                ELSE pollSample(w1, c))

\* poll(): client.getRxText(rxOffset, newLength) settles
PollRxTextDone(c, ok) ==
  /\ PollerCallback(c, ok)
  /\ c.fn = "poll"
  /\ c.pc = "getRxText"
  /\ LET newText == getRxText(rxBuffer, c.start, c.len - c.start)
         w1 == [World EXCEPT !.p.rxOffset = c.len]
         w2 == [w1 EXCEPT !.h = Read(@, c.start, c.len)]
     IN Becomes(IF ~ok THEN pollCatch(Settle(World, c))
                ELSE IF newText # <<>>
                THEN pollSample(push(updatePeer(w2, newText), newText), c)
                ELSE pollSample(w1, c))

\* sampleSignalMetricsIfDue(): getWpm() and getSignalNoiseRatio() settle;
\* signalNoiseRatio is set where detectedWpm is
PollSampleDone(c, ok) ==
  /\ PollerCallback(c, ok)
  /\ c.fn = "poll"
  /\ c.pc = "sample"
  /\ Becomes(pollEnd(IF ok THEN [World EXCEPT !.p.detectedWpm = DecoderWpm]
                     ELSE World, c))

\* the decoder does something, whatever the poller is doing
DecoderEvent(name) ==
  /\ PollerOp(name)
  /\ UNCHANGED <<poller, loop, delivered, statuses, phist>>

\* the decoder decodes more text
RemoteAppend(chunk) ==
  /\ DecoderEvent("decode")
  /\ rxBuffer' = rxBuffer \o chunk

\* the decoder is restarted: its buffer starts again from nothing
RemoteRestart ==
  /\ rxBuffer # <<>>
  /\ DecoderEvent("restart")
  /\ rxBuffer' = <<>>

\* ------------------------------------------------------------ specification
ClockNext == \E d \in TickDeltas : Tick(d)

GuardNext ==
  \/ MarkListenStart
  \/ ClearInhibit
  \/ EmergencyStop
  \/ \E ok \in BOOLEAN : EmergencyStopAbortDone(ok)
  \/ \E ok \in BOOLEAN : EmergencyStopStopDone(ok)

WatchdogNext ==
  \/ WatchdogFire
  \/ \E ok \in BOOLEAN : WatchdogAbortDone(ok)
  \/ \E ok \in BOOLEAN : WatchdogStopDone(ok)

SendNext(callers, inputs) ==
  \/ \E p \in callers, in \in inputs : SendBegin(p, in)
  \/ \E p \in callers, ok \in BOOLEAN : SendSetWpmDone(p, ok)
  \/ \E p \in callers, ok \in BOOLEAN : SendTxTextDone(p, ok)
  \/ \E p \in callers, ok \in BOOLEAN : SendStartTxDone(p, ok)

QrlNext ==
  \/ CheckQrlBegin
  \/ \E ok \in BOOLEAN, len \in RxLengths : CheckQrlRxBeforeDone(ok, len)
  \/ \E ok \in BOOLEAN : CheckQrlTxTextDone(ok)
  \/ \E ok \in BOOLEAN : CheckQrlStartTxDone(ok)
  \/ CheckQrlWake
  \/ \E ok \in BOOLEAN, len \in RxLengths : CheckQrlRxAfterDone(ok, len)

\* the plain message among the inputs
PlainInputs == {in \in SendInputs : in.intent = "default"}

\* The Transmitter with two callers of send(), which send the plain message,
\* emergencyStop(), clearInhibit(), markListenStart(), destroy() and the
\* watchdog.
Next ==
  \/ ClockNext
  \/ GuardNext
  \/ Destroy
  \/ WatchdogNext
  \/ SendNext(Procs, PlainInputs)

Spec == Init /\ [][Next]_vars

\* The Transmitter with checkQrl() and one caller of send(), over less than
\* the identification interval.
\* no wait as long as the identification interval
QrlClockNext == \E d \in TickDeltas \ {LEGAL_ID_INTERVAL_MS} : Tick(d)

NextQrl ==
  \/ QrlClockNext
  \/ GuardNext
  \/ WatchdogNext
  \/ SendNext({"s1"}, PlainInputs)
  \/ QrlNext

SpecQrl == Init /\ [][NextQrl]_vars

\* One send() of a Transmitter that may transmit, for every detected speed
\* and for each of the inputs.
SpeedInputs ==
  {[text |-> <<"t", "n", "x", " ", "7", "3">>, rx |-> r, intent |-> "default",
    peer |-> <<>>] : r \in 0 .. MaxRxWpm}

InitSpeed ==
  /\ Init
  /\ config.enabled
  /\ ~config.inhibit
  /\ config.callsign # <<>>

SendOnce(in) ==
  /\ result["s1"].status = "none"
  /\ SendBegin("s1", in)

NextSpeed ==
  \/ ClockNext
  \/ MarkListenStart
  \/ WatchdogNext
  \/ \E in \in SpeedInputs \cup SendInputs : SendOnce(in)
  \/ \E ok \in BOOLEAN : SendSetWpmDone("s1", ok)
  \/ \E ok \in BOOLEAN : SendTxTextDone("s1", ok)
  \/ \E ok \in BOOLEAN : SendStartTxDone("s1", ok)

SpecSpeed == InitSpeed /\ [][NextSpeed]_vars

\* The FldigiPoller with its SentenceBuffer: start(), stop(), the timers,
\* the settling of each decoder call, and a decoder that decodes text and
\* may be restarted.
Chunks == {<<"E">>, <<" ", "K">>}

PollerClockNext ==
  \E d \in {DefaultPollingIntervalMs} \cup {x - now : x \in {y \in Deadlines : y > now}} :
    TickUpTo(d, MaxPollerTicks)

NextPoller ==
  \/ PollerClockNext
  \/ Start
  \/ Stop
  \/ \E t \in loop.timers : PollTimerFire(t)
  \/ \E t \in loop.timers : ReconnectTimerFire(t)
  \/ SilenceTimerFire
  \/ \E c \in loop.calls, ok \in BOOLEAN : TryConnectVersionDone(c, ok)
  \/ \E c \in loop.calls, ok \in BOOLEAN : TryConnectRxLengthDone(c, ok)
  \/ \E c \in loop.calls, ok \in BOOLEAN : PollRxLengthDone(c, ok)
  \/ \E c \in loop.calls, ok \in BOOLEAN : PollRxTextDone(c, ok)
  \/ \E c \in loop.calls, ok \in BOOLEAN : PollSampleDone(c, ok)
  \/ \E chunk \in Chunks : RemoteAppend(chunk)
  \/ RemoteRestart

InitPoller ==
  /\ Init
  /\ config.enabled
  /\ ~config.inhibit
  /\ config.callsign = PA3XYZ

SpecPoller == InitPoller /\ [][NextPoller]_vars

\* One session of the poller over a long time, with a decoder that does not
\* decode: time advances from one timer to the next.
BackoffClockNext ==
  \E d \in {x - now : x \in {y \in Deadlines : y > now}} :
    TickUpTo(d, MaxBackoffTicks)

NextBackoff ==
  \/ BackoffClockNext
  \/ Start
  \/ \E t \in loop.timers : PollTimerFire(t)
  \/ \E t \in loop.timers : ReconnectTimerFire(t)
  \/ \E c \in loop.calls, ok \in BOOLEAN : TryConnectVersionDone(c, ok)
  \/ \E c \in loop.calls, ok \in BOOLEAN : TryConnectRxLengthDone(c, ok)
  \/ \E c \in loop.calls, ok \in BOOLEAN : PollRxLengthDone(c, ok)
  \/ \E c \in loop.calls, ok \in BOOLEAN : PollSampleDone(c, ok)

SpecBackoff == InitPoller /\ [][NextBackoff]_vars

\* One session of the poller with a decoder that decodes a callsign and a
\* go-ahead and may be restarted.
PeerChunks == {DL2ABC, <<" ", "K">>}

NextPeer ==
  \/ PollerClockNext
  \/ PollerOpUpTo("start", MaxPeerOps) /\ StartCall
  \/ \E chunk \in PeerChunks :
       /\ PollerOpUpTo("decode", MaxPeerOps)
       /\ rxBuffer' = rxBuffer \o chunk
       /\ UNCHANGED <<poller, loop, delivered, statuses, phist>>
  \/ /\ rxBuffer # <<>>
     /\ PollerOpUpTo("restart", MaxPeerOps)
     /\ rxBuffer' = <<>>
     /\ UNCHANGED <<poller, loop, delivered, statuses, phist>>
  \/ \E t \in loop.timers : PollTimerFire(t)
  \/ \E t \in loop.timers : ReconnectTimerFire(t)
  \/ SilenceTimerFire
  \/ \E c \in loop.calls, ok \in BOOLEAN : TryConnectVersionDone(c, ok)
  \/ \E c \in loop.calls, ok \in BOOLEAN : TryConnectRxLengthDone(c, ok)
  \/ \E c \in loop.calls, ok \in BOOLEAN : PollRxLengthDone(c, ok)
  \/ \E c \in loop.calls, ok \in BOOLEAN : PollRxTextDone(c, ok)
  \/ \E c \in loop.calls, ok \in BOOLEAN : PollSampleDone(c, ok)

SpecPeer == InitPoller /\ [][NextPeer]_vars

\* ------------------------------------------------------------ XmlRpcClient
\* fail() of call(), without `if (settled) return`
fail_Unguarded(t, err) ==
  [t EXCEPT !.settled = TRUE,
            !.outcomes = Append(@, [kind |-> "reject", error |-> err, bytes |-> 0])]

fail(t, err) ==
  IF t.settled THEN t
  ELSE [t EXCEPT !.settled = TRUE,
                 !.outcomes = Append(@, [kind |-> "reject", error |-> err,
                                         bytes |-> 0])]

\* succeed(): the value is parsed from all the bytes of `chunks`
succeed(t) ==
  IF t.settled THEN t
  ELSE [t EXCEPT !.settled = TRUE,
                 !.outcomes = Append(@, [kind |-> "resolve", error |-> "",
                                         bytes |-> t.chunks])]

\* a step of one call: nothing else moves
TransportStep(name) ==
  /\ ev' = Event(name, "return", "")
  /\ UNCHANGED <<now, ticks, ops, poller, loop, rxBuffer, delivered, statuses,
                 phist, transmitterVars>>

\* call(): the request is written and ended
TransportCall ==
  /\ transport.pc \in {"idle", "closed"}
  /\ transport.n < MaxCalls
  /\ TransportStep("call")
  /\ transport' = [NoRequest EXCEPT !.n = transport.n + 1, !.pc = "sent"]

\* the response callback: the status line and headers have arrived; the body
\* will be a value or a fault
TransportResponse(statusOk, fault) ==
  /\ transport.pc = "sent"
  /\ ~transport.destroyed
  /\ TransportStep("response")
  /\ transport' =
       IF ~statusOk
       THEN [fail(transport, "http") EXCEPT !.pc = "closed"]
       ELSE [transport EXCEPT !.pc = "receiving", !.fault = fault]

\* the two 'data' listeners, for a chunk of `length` bytes.  What a destroyed
\* request still delivers is left open: a chunk already read may follow.
TransportData(length) ==
  /\ transport.pc = "receiving"
  /\ transport.events < MaxChunks
  /\ TransportStep("data")
  /\ LET t == [transport EXCEPT !.events = @ + 1, !.chunks = @ + length,
                                 !.totalBytes = @ + length]
     IN transport' =
          IF t.totalBytes > MAX_RESPONSE_BYTES
          THEN fail([t EXCEPT !.destroyed = TRUE], "too large")
          ELSE t

\* the 'end' listener
TransportEnd ==
  /\ transport.pc = "receiving"
  /\ TransportStep("end")
  /\ transport' =
       [(IF transport.settled THEN transport
         ELSE IF transport.fault THEN fail(transport, "fault")
         ELSE succeed(transport)) EXCEPT !.pc = "closed"]

\* req.on("timeout"): the socket was idle for timeoutMs
TransportTimeout ==
  /\ transport.pc \in {"sent", "receiving"}
  /\ ~transport.destroyed
  /\ TransportStep("timeout")
  /\ transport' = fail([transport EXCEPT !.destroyed = TRUE], "timeout")

\* req.on("error"): no connection, a reset, or the socket hang up that
\* follows req.destroy()
TransportError ==
  /\ transport.pc \in {"sent", "receiving"}
  /\ TransportStep("error")
  /\ transport' = [fail(transport, "connection") EXCEPT !.pc = "closed"]

\* chunk lengths on either side of the limit
ChunkBytes == {1, MAX_RESPONSE_BYTES \div 2, MAX_RESPONSE_BYTES - 1, MAX_RESPONSE_BYTES}

NextTransport ==
  \/ TransportCall
  \/ \E statusOk \in BOOLEAN, fault \in BOOLEAN : TransportResponse(statusOk, fault)
  \/ \E length \in ChunkBytes : TransportData(length)
  \/ TransportEnd
  \/ TransportTimeout
  \/ TransportError

SpecTransport == InitPoller /\ [][NextTransport]_vars

\* A SentenceBuffer driven on its own: push(), flush(), reset(), its silence
\* timer and the clock.  Fragments: empty, white space, letters that end or
\* continue a word, and the terminators in either case.
FramerChunks ==
  {<<>>, <<" ">>, <<"K">>, <<"N">>, <<" ", "k">>, <<" ", "s", "K">>}

\* One call on the SentenceBuffer, as its caller observes it: the fragment,
\* the time, the accumulator before and after (the `pending` getter), the
\* message given to onFlush (empty: no call) and the timer left armed.
Observed(op, text, w) ==
  [w EXCEPT !.h.framer =
     Append(@, [op |-> op, text |-> text, at |-> now,
                before |-> poller.buffer, pending |-> w.p.buffer,
                message |-> IF Len(w.d) > Len(delivered)
                            THEN w.d[Len(w.d)].text ELSE <<>>,
                timer |-> w.p.silenceTimer])]

FramerPush(text) ==
  /\ PollerOpUpTo("push", MaxFramerOps)
  /\ UNCHANGED rxBuffer
  /\ Becomes(Observed("push", text, push(World, text)))

FramerFlush ==
  /\ PollerOpUpTo("flush", MaxFramerOps)
  /\ UNCHANGED rxBuffer
  /\ Becomes(Observed("flush", <<>>, flush(World)))

FramerReset ==
  /\ PollerOpUpTo("reset", MaxFramerOps)
  /\ UNCHANGED rxBuffer
  /\ Becomes(Observed("reset", <<>>, reset(World)))

\* the callback of resetSilenceTimer(): flush()
FramerSilence ==
  /\ poller.silenceTimer # 0
  /\ poller.silenceTimer <= now
  /\ PollerStep("silenceTimer")
  /\ Becomes(Observed("timer", <<>>, flush(World)))

FramerClockNext ==
  \E d \in {SilenceThresholdMs \div 3}
              \cup {x - now : x \in {y \in Deadlines : y > now}} :
    TickUpTo(d, MaxFramerTicks)

NextFramer ==
  \/ FramerClockNext
  \/ \E text \in FramerChunks : FramerPush(text)
  \/ FramerFlush
  \/ FramerReset
  \/ FramerSilence

SpecFramer == InitPoller /\ [][NextFramer]_vars

\* ------------------------------------------------------------------ claims
\* the send() calls that have returned
Returned == {p \in Procs : result[p].status # "none"}

\* the gates of preflightChecks() pass for the call (by the history)
PreflightPasses(call) ==
  config.enabled /\ ~call.latched /\ config.callsign # <<>>

\* C1, as stated: once emergencyStop() has been called (or tx.inhibit is set)
\* and until clearInhibit() is called, the flag stays set and every send()
\* returns the inhibit error.
C1_InhibitErrorAlways ==
  /\ hist.stopLatched => inhibited
  /\ \A p \in Returned :
       result[p].call.latched =>
         result[p].status = "rejected" /\ result[p].error = "inhibited"

\* C1, amended: once emergencyStop() has been called (or tx.inhibit is set) and
\* until clearInhibit() is called, the flag stays set and every send() is
\* rejected: with the inhibit error when transmit is enabled, with the
\* disabled error otherwise.
C1_InhibitLatched ==
  /\ hist.stopLatched => inhibited
  /\ ops = 0 => inhibited = config.inhibit
  /\ \A p \in Returned :
       result[p].call.latched =>
         /\ result[p].status = "rejected"
         /\ result[p].error = IF config.enabled THEN "inhibited" ELSE "disabled"

\* a send() rejected by the inhibit that emergencyStop() has set
C1_Witness ==
  /\ ~config.inhibit
  /\ \E p \in Returned : result[p].call.latched /\ result[p].error = "inhibited"

\* C2: of two send() calls in flight together, with every gate but the
\* cooldown passing and no decoder error, exactly one succeeds and the other
\* is rejected by the cooldown.
C2_ConcurrentSendsOneSucceeds ==
  \A p \in Returned, q \in Returned :
    ( /\ result[p].call.id \in result[q].call.overlap
      /\ \A r \in {p, q} :
           \/ result[r].status = "success"
           \/ result[r].status = "rejected" /\ result[r].error = "cooldown" )
    => /\ result[p].status = "success"
       /\ result[q].status = "rejected"

\* C3: a send() invoked less than TX_COOLDOWN_MS after the last success is
\* rejected, and by the cooldown when the gates before it pass.
C3_Cooldown ==
  \A p \in Returned :
    result[p].call.cooling =>
      /\ result[p].status = "rejected"
      /\ PreflightPasses(result[p].call) => result[p].error = "cooldown"

\* a send() right after a success, rejected by the cooldown
C3_Witness ==
  /\ hist.lastOkAt = now
  /\ \E p \in Returned : result[p].call.cooling /\ result[p].error = "cooldown"

\* C4, as stated: a send() invoked before markListenStart(), or less than
\* LISTEN_BEFORE_TX_MS after the last one, returns the listen error.
C4_ListenErrorAlways ==
  \A p \in Returned :
    ~result[p].call.listened =>
      result[p].status = "rejected" /\ result[p].error = "listen"

\* C4, amended: such a send() is rejected, and by the listen gate when the
\* gates before it (enabled, inhibit, callsign, cooldown) pass.
C4_ListenBeforeTransmit ==
  \A p \in Returned :
    ~result[p].call.listened =>
      /\ result[p].status = "rejected"
      /\ result[p].error \in {"disabled", "inhibited", "callsign", "cooldown",
                              "listen"}
      /\ PreflightPasses(result[p].call) /\ ~result[p].call.cooling
           => result[p].error = "listen"

\* a send() rejected by the listen gate, more than LISTEN_BEFORE_TX_MS after
\* construction and less than that after the second markListenStart()
C4_Witness ==
  /\ hist.marks = 2
  /\ now - hist.listenAt < LISTEN_BEFORE_TX_MS
  /\ now > LISTEN_BEFORE_TX_MS
  /\ \E p \in Returned : result[p].error = "listen"

\* C5: every send() that succeeds has written "QRL?" to the decoder before
\* its own text.
C5_QrlBeforeFirstText ==
  \A p \in Returned :
    result[p].status = "success" =>
      \E i \in 1 .. (result[p].txIndex - 1) : fldigi.txTexts[i] = QRL

\* checkQrl() has returned false without a write to the decoder or a start
\* of transmission
QrlRefused ==
  ~qrlResult.clear /\ ~qrlResult.wrote /\ ~qrlResult.started

WatchdogArmedAndFires ==
  /\ hist.armed <=> txDurationTimer.state = "pending"
  /\ ( ev.op = "send" /\ ev.how = "return"
       /\ result[ev.who].status = "success" )
     => txDurationTimer =
          [state |-> "pending",
           deadline |-> now + config.maxDurationSeconds * 1000]
  /\ txDurationTimer.state = "pending" => now <= txDurationTimer.deadline
  /\ ev.op = "watchdog" /\ ev.how = "fire"
     => /\ txDurationTimer.state = "fired"
        /\ now = txDurationTimer.deadline
        /\ fldigi.last = "main.abort"
  /\ ev.op = "watchdog" /\ ev.how = "await" => fldigi.last = "main.rx"

\* C7, as stated: each success arms the watchdog; unless emergencyStop(),
\* destroy() or a later success comes first, it fires maxDurationSeconds later
\* and calls main.abort followed by main.rx.
C7_WatchdogAbortsAndReturns ==
  /\ WatchdogArmedAndFires
  /\ wd.abortTx = 0 => hist.wdRx = hist.wdFired

\* C7, amended: as stated, but main.rx is called only when the main.abort
\* call succeeds.
C7_WatchdogAborts ==
  /\ WatchdogArmedAndFires
  /\ hist.wdRx <= hist.wdFired
  /\ wd.abortTx = 0 /\ ev.op = "watchdog" /\ ev.who # "abortTx failed"
     => hist.wdRx >= 1

\* the watchdog has fired maxDurationSeconds after a success and, its
\* main.abort done, has called main.rx
C7_Witness ==
  /\ ev.op = "watchdog" /\ ev.how = "await"
  /\ hist.wdRx = 1
  /\ now = hist.lastOkAt + config.maxDurationSeconds * 1000

C9_IdentificationWhenDue ==
  /\ \A p \in Returned :
       result[p].status = "success" /\ result[p].idDue
       => /\ result[p].idAppended
          /\ EndsWith(result[p].transmitted, legalIdSuffix)
  /\ (\A p \in Procs : send[p].pc = "idle") /\ lastIdTime # 0
     => hist.idAt # 0 /\ lastIdTime <= hist.idAt

\* the speed passed to FldigiClient.setWpm by the call in flight, with the
\* detected speed it was called with
SpeedsSet ==
  IF send["s1"].pc = "setWpm"
  THEN {[rx |-> send["s1"].call.rx, wpm |-> fldigi.wpmSet]}
  ELSE {}

\* C10, as stated: for a detected speed of 5 or more the speed set is even,
\* at most the detected speed, and from 5 to 60.
C10_SpeedEvenAlways ==
  \A x \in SpeedsSet :
    x.rx >= 5 => x.wpm % 2 = 0 /\ x.wpm <= x.rx /\ x.wpm >= 5 /\ x.wpm <= 60

\* C10, amended: for a detected speed of 6 or more the speed set is even, at
\* most the detected speed, and from 5 to 60; for a detected speed of 5 it
\* is 5.
C10_SpeedEvenFromSix ==
  \A x \in SpeedsSet :
    /\ x.rx >= 6 => x.wpm % 2 = 0 /\ x.wpm <= x.rx /\ x.wpm >= 5 /\ x.wpm <= 60
    /\ x.rx = 5 => x.wpm = 5

\* an odd detected speed matched by the even speed below it
C10_Witness == [rx |-> 23, wpm |-> 22] \in SpeedsSet

\* C11: a detected speed above 0 is never exceeded by the speed set, also
\* below 5; the configured speed is set only when none was detected.
C11_SpeedNeverAboveDetected ==
  \A x \in SpeedsSet :
    /\ x.rx > 0 => x.wpm <= x.rx
    /\ x.rx = 0 => x.wpm = config.wpm

\* C12: every write to the transmit buffer is made with the speed set by the
\* operation that writes (send() or checkQrl()), and a send() whose setWpm()
\* failed has written nothing.
C12_SpeedSetBeforeWrite ==
  /\ fldigi.lastWrite.by # 0 => fldigi.lastWrite.speedBy = fldigi.lastWrite.by
  /\ \A p \in Returned : result[p].error = "setWpm" => result[p].txIndex = 0

\* C13: send() never throws: whatever the gates and whichever decoder call
\* fails, it returns a result, and one that is no success names its error.
C13_SendNeverThrows ==
  /\ ev.op = "send" => ev.how \in {"await", "return"}
  /\ ev.op = "send" /\ ev.how = "return"
     => result[ev.who].status \in {"success", "rejected", "error"}
  /\ \A p \in Returned :
       /\ result[p].status # "success" => result[p].error # ""
       /\ result[p].status = "error" => result[p].error \in {"setWpm", "fldigi"}

\* send() has returned the error of a failed decoder call after its write
C13_Witness ==
  /\ ev.op = "send" /\ ev.how = "return"
  /\ result[ev.who].status = "error"
  /\ result[ev.who].error = "fldigi"
  /\ result[ev.who].txIndex > 0

\* C14: the log has exactly one entry per transmission started on the decoder
\* (by send() or checkQrl()), each with a text written to the transmit buffer,
\* and none for a send() that was rejected or failed.
C14_OneLogEntryPerTransmission ==
  /\ Len(txLog) = fldigi.started
  /\ Len(txLog) = hist.okCount
  /\ \A i \in DOMAIN txLog : txLog[i].text \in Range(fldigi.txTexts)

\* C15: a checkQrl() that has started a transmission has called main.rx when
\* it returns.
C15_QrlReturnsToReceive ==
  qrlResult.status = "returned" /\ qrlResult.keyed
  => FldigiMethod("stopTx") \in qrlResult.called

\* "DE <callsign> SK"
SignoffEnding == <<"D", "E", " ">> \o config.callsign \o <<" ", "S", "K">>

\* C16: the text of a successful send() with intent signoff ends with
\* "DE <callsign> SK", once.
C16_SignoffEndsWithCallAndSK ==
  \A p \in Returned :
    result[p].status = "success" /\ result[p].call.intent = "signoff"
    => /\ EndsWith(result[p].transmitted, SignoffEnding)
       /\ ~EndsWith(result[p].transmitted,
                    SignoffEnding \o <<" ">> \o SignoffEnding)

\* C17: at any time at most one poll cycle or connect attempt is in flight
\* and at most one poll/backoff timer is pending, and no timer is pending
\* while a cycle is in flight, whatever the interleaving of start(), stop(),
\* timers and settling calls.
C17_OneCycleOneTimer ==
  /\ Cardinality(loop.calls) <= 1
  /\ Cardinality(loop.timers) <= 1
  /\ ~(loop.calls # {} /\ loop.timers # {})

\* C18: once stop() has returned, onMessage is not called: no utterance is
\* delivered while the poller is not running, neither by a decoder call that
\* was in flight at stop() nor by the silence timer.
C18_NoMessageAfterStop == \A i \in DOMAIN delivered : delivered[i].running

\* C19: a poll that reads a remote buffer length smaller than the cursor
\* sets the cursor to that length and discards the pending accumulator
\* (buffer emptied, silence timer cancelled, nothing delivered); and every
\* utterance delivered consists of text pushed after the last restart
\* detected before its delivery.
C19_RestartDiscards ==
  /\ [][phist'.resets > phist.resets =>
          /\ poller'.rxOffset = Len(rxBuffer)
          /\ poller'.buffer = <<>>
          /\ poller'.silenceTimer = 0
          /\ delivered' = delivered]_vars
  /\ [](\A i \in DOMAIN delivered : delivered[i].since = delivered[i].resets)

\* a restart was detected while text was pending, and the text is gone
C19_Witness ==
  /\ phist.discarded > 0
  /\ poller.rxOffset = Len(rxBuffer)
  /\ poller.buffer = <<>>
  /\ delivered = <<>>

PollReadFailures == {Failure("getRxLength"), Failure("getRxText")}

\* C20 as stated: while running, the failure of any decoder call of a poll
\* cycle leaves the status reconnecting and a reconnect timer pending.
C20_AnyPollFailureReconnects ==
  (ev.op = "poll" /\ ev.who # "" /\ poller.running) =>
    /\ ev.how = "return"
    /\ poller.status = "reconnecting"
    /\ \E t \in loop.timers : t.kind = "tryConnect" /\ t.id = poller.pollTimer

\* C20: no failure of a decoder call leaves tryConnect() or poll() as an
\* exception.  While running, a failed getRxLength() or getRxText() of a
\* poll sets the status to reconnecting, flushes the framer (the pending
\* utterance, normalised, is delivered once and the accumulator and its
\* timer are cleared) and schedules tryConnect() after the backoff delay.
\* A failed metrics sample changes neither status nor framer nor what was
\* delivered, and the next poll is scheduled.
C20_PollFailureReconnects ==
  /\ [](ev.op \in {"poll", "tryConnect"} => ev.how = "return")
  /\ [][(ev'.op = "poll" /\ ev'.who \in PollReadFailures /\ poller.running) =>
          /\ poller'.status = "reconnecting"
          /\ poller'.buffer = <<>>
          /\ poller'.silenceTimer = 0
          /\ IF normalize(poller.buffer) = <<>> THEN delivered' = delivered
             ELSE /\ Len(delivered') = Len(delivered) + 1
                  /\ SubSeq(delivered', 1, Len(delivered)) = delivered
                  /\ delivered'[Len(delivered')].text = normalize(poller.buffer)
          /\ \E t \in loop'.timers \ loop.timers :
               /\ t.kind = "tryConnect"
               /\ t.at = now + poller.backoffMs
               /\ t.id = poller'.pollTimer]_vars
  /\ [][(ev'.op = "poll" /\ ev'.who = Failure("sample") /\ poller.running) =>
          /\ poller'.status = poller.status
          /\ poller'.buffer = poller.buffer
          /\ poller'.silenceTimer = poller.silenceTimer
          /\ delivered' = delivered
          /\ \E t \in loop'.timers \ loop.timers :
               t.kind = "poll" /\ t.id = poller'.pollTimer]_vars

\* a read of a running poller has just failed with text pending, and the
\* text was delivered by the flush of the catch block
C20_Witness ==
  /\ ev.op = "poll"
  /\ ev.who \in PollReadFailures
  /\ poller.running
  /\ phist.forced > 0
  /\ delivered # <<>>
  /\ delivered[Len(delivered)].text = <<"E">>
  /\ poller.status = "reconnecting"

\* 2^n
RECURSIVE Pow2(_)
Pow2(n) == IF n = 0 THEN 1 ELSE 2 * Pow2(n - 1)

\* C21: the reconnects scheduled since start() or the last successful
\* connect have the delays 1000, 2000, 4000, 8000, 16000, 30000, 30000, ...:
\* the i-th is the initial delay doubled i - 1 times, capped at 30000 ms;
\* a successful connect starts the series again.
C21_BackoffDoublesToCap ==
  /\ \A i \in DOMAIN phist.retries :
       phist.retries[i] = Min(BACKOFF_INITIAL_MS * Pow2(i - 1), BACKOFF_MAX_MS)
  /\ \A t \in loop.timers :
       t.kind = "tryConnect" /\ t.id = poller.pollTimer /\ poller.running =>
         /\ phist.retries # <<>>
         /\ t.at <= now + phist.retries[Len(phist.retries)]

\* seven failures in a row: the cap was used twice, after 16000
C21_Witness ==
  /\ Len(phist.retries) >= 7
  /\ phist.retries[5] = 16000
  /\ phist.retries[6] = BACKOFF_MAX_MS
  /\ phist.retries[7] = BACKOFF_MAX_MS

\* C23: stop() leaves no poll or reconnect timer pending, so that none fires
\* after it, and leaves the framer empty with no silence timer; a stop() of
\* a poller that is not running changes no field, no timer and calls no
\* callback.
C23_StopCancelsAndIsIdempotent ==
  /\ [](~poller.running => loop.timers = {})
  /\ [](ev.op = "stop" =>
          /\ ev.how = "return"
          /\ poller.pollTimer = 0
          /\ poller.buffer = <<>>
          /\ poller.silenceTimer = 0)
  /\ [][ev'.op = "stop" /\ ~poller.running =>
          /\ poller' = poller
          /\ loop' = loop
          /\ delivered' = delivered
          /\ statuses' = statuses]_vars

\* C22: the peer delivered with an utterance is UNKNOWN or a callsign that
\* occurs in the text of that utterance, never one taken from text that is
\* not part of it.
C22_PeerFromOwnText ==
  \A i \in DOMAIN delivered :
    delivered[i].peer # UNKNOWN_PEER =>
      Includes(MapUpper(delivered[i].text), delivered[i].peer)

\* ------------------------------------------------- claims on the framer
FramerLog == phist.framer

NotSpace(c) == c # " "
\* .replace(/\s/g, "")
StripSpaces(s) == SelectSeq(s, NotSpace)

RECURSIVE Pushed(_)
\* the concatenation of the fragments pushed
Pushed(log) ==
  IF log = <<>> THEN <<>>
  ELSE Pushed(SubSeq(log, 1, Len(log) - 1))
         \o (IF log[Len(log)].op = "push" THEN log[Len(log)].text ELSE <<>>)

RECURSIVE Messages(_)
\* messages.join("")
Messages(log) ==
  IF log = <<>> THEN <<>>
  ELSE Messages(SubSeq(log, 1, Len(log) - 1)) \o log[Len(log)].message

OnlyPushes(log) == \A i \in DOMAIN log : log[i].op = "push"

Terminators ==
  {<<"A", "R">>, <<"S", "K">>, <<"K", "N">>, <<"B", "K">>, <<"K">>}

\* s ends, in either case, in a space and a terminator
EndsInSpacedTerminator(s) ==
  \E t \in Terminators : EndsWith(MapUpper(s), <<" ">> \o t)

\* C24 as stated: when only push() is called and the fragments pushed,
\* concatenated, end in a terminator, the messages emitted, concatenated and
\* stripped of white space, are the fragments pushed, concatenated and
\* stripped of white space.
C24_AllFlushedAtTerminator ==
  (OnlyPushes(FramerLog) /\ EndsInSpacedTerminator(Pushed(FramerLog)))
    => StripSpaces(Messages(FramerLog)) = StripSpaces(Pushed(FramerLog))

\* C24: when only push() is called, the messages emitted followed by the
\* pending accumulator, stripped of white space, are the fragments pushed,
\* stripped of white space; and nothing is pending after a push that left
\* the accumulator (not the whole input) ending in a terminator.
C24_Reassembly ==
  OnlyPushes(FramerLog) =>
    /\ StripSpaces(Messages(FramerLog)) \o StripSpaces(poller.buffer)
         = StripSpaces(Pushed(FramerLog))
    /\ \A i \in DOMAIN FramerLog :
         EndsInSpacedTerminator(FramerLog[i].before \o FramerLog[i].text)
           => FramerLog[i].pending = <<>>

\* fragments pushed one after the other end in a terminator, and all of
\* them have been emitted, in more than one message
C24_Witness ==
  /\ OnlyPushes(FramerLog)
  /\ Len(FramerLog) = MaxFramerOps
  /\ \A i \in DOMAIN FramerLog : FramerLog[i].text # <<>>
  /\ EndsInSpacedTerminator(Pushed(FramerLog))
  /\ poller.buffer = <<>>
  /\ Len(delivered) >= 2
  /\ FramerLog[1].message = <<>>

\* the last push() of a non-empty fragment before call i, 0 if none
LastPush(log, i) ==
  LET js == {j \in 1..(i - 1) : log[j].op = "push" /\ log[j].text # <<>>}
  IN IF js = {} THEN 0 ELSE CHOOSE j \in js : \A k \in js : k <= j

Emitting(log) == {i \in DOMAIN log : log[i].message # <<>>}

\* C25: onFlush is called by a push() only when the accumulator then ends in
\* a terminator, and by the silence timer only when the silence threshold
\* has elapsed since the last push; otherwise, however many fragments are
\* pushed, nothing is emitted (flush() called by the owner apart).
C25_NoSpuriousFlush ==
  \A i \in Emitting(FramerLog) :
    LET e == FramerLog[i]
    IN /\ e.op \in {"push", "timer", "flush"}
       /\ e.op = "push" => EndsInSpacedTerminator(e.before \o e.text)
       /\ e.op = "timer" =>
            /\ LastPush(FramerLog, i) # 0
            /\ e.at >= FramerLog[LastPush(FramerLog, i)].at + SilenceThresholdMs

\* fragments were pushed over some time, none left the accumulator ending in
\* a terminator, the threshold has not elapsed, and nothing was emitted
C25_Witness ==
  /\ Len(FramerLog) = MaxFramerOps
  /\ \A i \in DOMAIN FramerLog :
       /\ FramerLog[i].op = "push"
       /\ FramerLog[i].text # <<>>
       /\ ~EndsInSpacedTerminator(FramerLog[i].pending)
  /\ FramerLog[1].at < FramerLog[MaxFramerOps].at
  /\ now > FramerLog[MaxFramerOps].at
  /\ now < FramerLog[MaxFramerOps].at + SilenceThresholdMs
  /\ EndsWith(poller.buffer, <<"N", "K">>)
  /\ delivered = <<>>

\* call k flushed: flush(), the silence timer, or a push() that emitted
Flushing(log, k) ==
  \/ log[k].op \in {"flush", "timer"}
  \/ log[k].op = "push" /\ log[k].message # <<>>

\* a non-empty fragment was pushed after call k and before call i
PushBetween(log, k, i) ==
  \E j \in (k + 1)..(i - 1) : log[j].op = "push" /\ log[j].text # <<>>

\* C26: flush() of an empty or white-space accumulator, by the owner or by
\* the timer, does not call onFlush; onFlush is never given the empty
\* string; and a flush that follows another flush with no push in between
\* emits nothing.
C26_FlushEmitsOnce ==
  /\ \A i \in DOMAIN delivered : delivered[i].text # <<>>
  /\ Len(delivered) = Cardinality(Emitting(FramerLog))
  /\ \A i \in DOMAIN FramerLog :
       FramerLog[i].op \in {"flush", "timer"} =>
         /\ StripSpaces(FramerLog[i].before) = <<>> => FramerLog[i].message = <<>>
         /\ \A k \in 1..(i - 1) :
              (Flushing(FramerLog, k) /\ ~PushBetween(FramerLog, k, i))
                => FramerLog[i].message = <<>>

\* a fragment is pushed and flushed, and a second flush() emits nothing
C26_Witness ==
  /\ Len(FramerLog) = 3
  /\ FramerLog[1].op = "push" /\ FramerLog[1].message = <<>>
  /\ FramerLog[2].op = "flush" /\ FramerLog[2].message # <<>>
  /\ FramerLog[3].op = "flush" /\ FramerLog[3].message = <<>>
  /\ Len(delivered) = 1

\* C27: while the accumulator is not empty the silence timer is armed for
\* silenceThresholdMs after the last non-empty push and that time has not
\* passed; the timer flushes at that time, never earlier, once: it clears
\* the accumulator and leaves no timer armed.
C27_SilenceFlush ==
  /\ poller.buffer # <<>> =>
       LET j == LastPush(FramerLog, Len(FramerLog) + 1)
       IN /\ j # 0
          /\ poller.silenceTimer = FramerLog[j].at + SilenceThresholdMs
          /\ now <= poller.silenceTimer
  /\ \A i \in DOMAIN FramerLog :
       FramerLog[i].op = "timer" =>
         LET j == LastPush(FramerLog, i)
         IN /\ j # 0
            /\ FramerLog[i].at = FramerLog[j].at + SilenceThresholdMs
            /\ FramerLog[i].pending = <<>>
            /\ FramerLog[i].timer = 0

\* two fragments pushed some time apart are emitted as one message
\* silenceThresholdMs after the second
C27_Witness ==
  /\ Len(FramerLog) = 3
  /\ FramerLog[1].op = "push" /\ FramerLog[1].text # <<>>
  /\ FramerLog[2].op = "push" /\ FramerLog[2].text # <<>>
  /\ FramerLog[2].before # <<>>
  /\ FramerLog[1].at < FramerLog[2].at
  /\ FramerLog[3].op = "timer"
  /\ FramerLog[3].at = FramerLog[2].at + SilenceThresholdMs
  /\ StripSpaces(FramerLog[3].message)
       = StripSpaces(FramerLog[1].text \o FramerLog[2].text)
  /\ FramerLog[3].message # <<>>
  /\ Len(delivered) = 1

\* s ends, in either case, in a terminator that is a word of its own: at
\* the start of s or after a character that is not a letter or a digit
EndsInTerminatorWord(s) ==
  \E t \in Terminators :
    /\ EndsWith(MapUpper(s), t)
    /\ \/ Len(s) = Len(t)
       \/ ~IsAlnum(MapUpper(s)[Len(s) - Len(t)])

\* C28: a push() of a non-empty fragment flushes within the call exactly
\* when the accumulator then ends, in either case, in AR, SK, KN, BK or K
\* standing as a word of its own; a K that ends a longer word does not
\* flush.
C28_FlushExactlyAtTerminator ==
  \A i \in DOMAIN FramerLog :
    (FramerLog[i].op = "push" /\ FramerLog[i].text # <<>>) =>
      (FramerLog[i].pending = <<>>
         <=> EndsInTerminatorWord(FramerLog[i].before \o FramerLog[i].text))

\* the last reset() before call i, 0 if none
LastReset(log, i) ==
  LET js == {j \in 1..(i - 1) : log[j].op = "reset"}
  IN IF js = {} THEN 0 ELSE CHOOSE j \in js : \A k \in js : k <= j

\* C29: reset() empties the accumulator and leaves no timer armed, without
\* calling onFlush; a message emitted later is made of text pushed after
\* the reset only; and the silence timer fires only for a push made after
\* the reset.
C29_ResetDiscards ==
  \A i \in DOMAIN FramerLog :
    LET e == FramerLog[i]
        r == LastReset(FramerLog, i)
    IN /\ e.op = "reset" =>
            e.message = <<>> /\ e.pending = <<>> /\ e.timer = 0
       /\ e.message # <<>> =>
            EndsWith(StripSpaces(Pushed(SubSeq(FramerLog, r + 1, i))),
                     StripSpaces(e.message))
       /\ e.op = "timer" => LastPush(FramerLog, i) > r

\* text is pushed and reset() called before its timer is due; text pushed
\* later is emitted alone, by the timer armed after the reset
C29_Witness ==
  /\ Len(FramerLog) = 4
  /\ FramerLog[1].op = "push" /\ FramerLog[1].pending # <<>>
  /\ StripSpaces(FramerLog[1].text) # <<>>
  /\ FramerLog[2].op = "reset" /\ FramerLog[2].before = FramerLog[1].pending
  /\ FramerLog[3].op = "push" /\ FramerLog[3].at > FramerLog[1].at
  /\ FramerLog[4].op = "timer"
  /\ FramerLog[4].at > FramerLog[1].at + SilenceThresholdMs
  /\ FramerLog[4].message = normalize(FramerLog[3].text)
  /\ FramerLog[4].message # <<>>

GateOrder == <<"disabled", "inhibited", "callsign", "cooldown", "listen">>

FailingGates ==
  (IF ~config.enabled THEN {"disabled"} ELSE {})
  \cup (IF inhibited THEN {"inhibited"} ELSE {})
  \cup (IF config.callsign = <<>> THEN {"callsign"} ELSE {})
  \cup (IF lastTxTime > 0 /\ now - lastTxTime < TX_COOLDOWN_MS
        THEN {"cooldown"} ELSE {})
  \cup (IF listenStartTime = 0 \/ now - listenStartTime < LISTEN_BEFORE_TX_MS
        THEN {"listen"} ELSE {})

FirstFailingGate ==
  GateOrder[CHOOSE i \in DOMAIN GateOrder :
              /\ GateOrder[i] \in FailingGates
              /\ \A j \in 1..(i - 1) : GateOrder[j] \notin FailingGates]

\* the step is the invocation of send() by caller p
SendInvoked(p) == send[p].pc = "idle" /\ ev'.op = "send" /\ ev'.who = p

\* C31: a send() invoked while some gate fails returns the rejection of the
\* first failing gate in the order enabled, inhibited, callsign, cooldown,
\* listen; it issues no decoder call and leaves lastTxTime, lastIdTime, the
\* inhibited flag and the duration timer as they were.  A send() invoked
\* while every gate passes is not rejected by a gate.
C31_GateOrder ==
  [][\A p \in Procs :
       SendInvoked(p) =>
         IF FailingGates # {}
         THEN /\ result'[p].status = "rejected"
              /\ result'[p].error = FirstFailingGate
              /\ send'[p].pc = "idle"
              /\ fldigi' = fldigi
              /\ UNCHANGED <<lastTxTime, lastIdTime, inhibited, txDurationTimer>>
         ELSE send'[p].pc # "idle" \/ result'[p].error \notin Range(GateOrder)]_vars

\* a send() was rejected as inhibited while the callsign was missing and the
\* listen period had not elapsed either
C31_Witness ==
  /\ ev.op = "send" /\ ev.how = "return"
  /\ result[ev.who].status = "rejected"
  /\ result[ev.who].error = "inhibited"
  /\ config.enabled
  /\ {"inhibited", "callsign", "listen"} \subseteq FailingGates
  /\ listenStartTime # 0

\* C32: the call send() is waiting on after setWpm(n) is modem.set_wpm, and
\* the transmit speed the decoder was given is the speed send() resolved.
C32_SetWpmReachesDecoder ==
  /\ \A p \in Procs :
       (send[p].pc = "setWpm" /\ ev.op = "send" /\ ev.who = p /\ ev.how = "await")
         => fldigi.last = "modem.set_wpm"
  /\ fldigi.speed = fldigi.wpmSet

\* ------------------------------------------------- claims on the cursor
\* Two sessions of the poller one after the other, with a decoder that
\* decodes one character at a time: start(), stop(), the timers and the
\* settling of each decoder call.
NextSessions ==
  \/ PollerClockNext
  \/ PollerOpUpTo("start", MaxSessionOps) /\ StartCall
  \/ PollerOpUpTo("stop", MaxSessionOps) /\ StopCall
  \/ /\ PollerOpUpTo("decode", MaxSessionOps)
     /\ rxBuffer' = rxBuffer \o <<"E">>
     /\ UNCHANGED <<poller, loop, delivered, statuses, phist>>
  \/ \E t \in loop.timers : PollTimerFire(t)
  \/ \E c \in loop.calls : TryConnectVersionDone(c, TRUE)
  \/ \E c \in loop.calls : TryConnectRxLengthDone(c, TRUE)
  \/ \E c \in loop.calls : PollRxLengthDone(c, TRUE)
  \/ \E c \in loop.calls : PollRxTextDone(c, TRUE)
  \/ \E c \in loop.calls : PollSampleDone(c, TRUE)
  \/ SilenceTimerFire

InitSessions ==
  /\ InitWith(ReadsLogged)
  /\ config.enabled
  /\ ~config.inhibit
  /\ config.callsign = PA3XYZ

SpecSessions == InitSessions /\ [][NextSessions]_vars

\* The poller with a decoder that cannot be reached at first and answers
\* every call once the first timer has fired.  Time passes from one timer to
\* the next; the silence timer of the framer lies beyond the time modelled.
LiveOutcomes == IF ticks = 0 THEN BOOLEAN ELSE {TRUE}

LiveClockNext ==
  \E d \in {x - now : x \in {y \in Deadlines : y > now}} : TickUpTo(d, MaxLiveTicks)

LiveTimers ==
  \/ \E t \in loop.timers : PollTimerFire(t)
  \/ \E t \in loop.timers : ReconnectTimerFire(t)

\* a decoder call settles with a response
LiveResponse ==
  \/ \E c \in loop.calls : TryConnectVersionDone(c, TRUE)
  \/ \E c \in loop.calls : TryConnectRxLengthDone(c, TRUE)
  \/ \E c \in loop.calls : PollRxLengthDone(c, TRUE)
  \/ \E c \in loop.calls : PollSampleDone(c, TRUE)

\* getRxText settles with a response
LiveText == \E c \in loop.calls : PollRxTextDone(c, TRUE)

\* a decoder call settles with an error
LiveError ==
  /\ FALSE \in LiveOutcomes
  /\ \/ \E c \in loop.calls : TryConnectVersionDone(c, FALSE)
     \/ \E c \in loop.calls : TryConnectRxLengthDone(c, FALSE)

NextLive ==
  \/ LiveClockNext
  \/ PollerOpUpTo("start", MaxLiveOps) /\ StartCall
  \/ PollerOpUpTo("stop", MaxLiveOps) /\ StopCall
  \/ /\ PollerOpUpTo("decode", MaxLiveOps)
     /\ rxBuffer' = rxBuffer \o <<"E">>
     /\ UNCHANGED <<poller, loop, delivered, statuses, phist>>
  \/ LiveTimers
  \/ LiveResponse
  \/ LiveText
  \/ LiveError

\* the event loop runs every timer that is due and every continuation whose
\* call has settled, every call settles (the transport's timeout), and time
\* passes; nothing is assumed of when getRxText settles, a poll waiting for
\* it being a poll in flight
LiveFairness ==
  /\ WF_vars(LiveClockNext)
  /\ WF_vars(LiveTimers)
  /\ WF_vars(LiveResponse)

SpecLive == InitPoller /\ [][NextLive]_vars /\ LiveFairness

\* C33: the cursor decreases only in start(), which begins a session, or in a
\* step that has read the remote length (a poll; a connect is allowed too)
\* and found it smaller than the cursor, and it is then set to that length.
C33_CursorMonotone ==
  [][poller'.rxOffset < poller.rxOffset =>
       \/ ev'.op = "start"
       \/ /\ ev'.op \in {"poll", "tryConnect"}
          /\ poller'.rxOffset = Len(rxBuffer)]_vars

\* C34: with a decoder that is not restarted, no read that is pushed to the
\* framer begins before the remote length found by the last successful
\* connect: what was in the remote buffer at connect time is never pushed.
C34_NothingOldPushed == phist.old = 0


\* the extraction priority applied to one text: the sender of the last CQ
\* call, else the sender of the last directed exchange, else the last
\* callsign-shaped token, else UNKNOWN
PeerOfText(text) ==
  LET cqCalls == extractCqCalls(text)
      exchanges == extractDirectedExchanges(text)
      calls == extractCallsigns(text)
  IN IF Len(cqCalls) > 0 THEN cqCalls[Len(cqCalls)]
     ELSE IF Len(exchanges) > 0 THEN exchanges[Len(exchanges)]
     ELSE IF Len(calls) > 0 THEN calls[Len(calls)]
     ELSE UNKNOWN_PEER

\* C35: the peer delivered with an utterance is the extraction priority
\* applied to the whole text of that utterance, however the polls split it.
C35_PeerOfWholeText ==
  \A i \in DOMAIN delivered : delivered[i].peer = PeerOfText(delivered[i].text)


\* a step that issues a transmit-buffer write to the decoder
WritesTxBuffer == Len(fldigi'.txTexts) > Len(fldigi.txTexts)

\* a step that issues start-transmit to the decoder
IssuesStartTx ==
  /\ fldigi'.last = "main.tx"
  /\ \/ \E p \in Procs : send'[p].pc = "startTx" /\ send[p].pc # "startTx"
     \/ qrl'.pc = "startTx" /\ qrl.pc # "startTx"

\* a step that arms the duration watchdog
ArmsWatchdog ==
  txDurationTimer'.state = "pending" /\ txDurationTimer' # txDurationTimer

\* C36: while the inhibited flag is set, no step of a send() or a checkQrl(),
\* resumed after emergencyStop() or not, writes the transmit buffer, issues
\* start-transmit or arms the duration watchdog.
C36_NoTransmitWhileInhibited ==
  [][inhibited => ~(WritesTxBuffer \/ IssuesStartTx \/ ArmsWatchdog)]_vars


\* C37: with a decoder that is not restarted, answers every call and
\* returns the slice asked for, each read pushed to the framer begins where
\* the one before it ended, the first after a connect at the connect length:
\* the ranges read are adjacent and do not overlap, so that every character
\* is pushed once and in order.
C37_AdjacentReads == phist.gaps = 0


\* a poll is in flight or a poll timer is pending
PollPending ==
  \/ \E c \in loop.calls : c.fn = "poll"
  \/ \E t \in loop.timers : t.kind = "poll"

\* the last status reported is connected
ReportsConnected == statuses # <<>> /\ statuses[Len(statuses)] = "connected"

\* C38: a running poller whose decoder answers from some point on
\* eventually reports connected with a poll pending, unless it is stopped;
\* while it runs a poll that is pending stays pending (the timer fires into a
\* call, the call ends by setting the timer) until stop(); and while it runs
\* it is never left with neither a timer pending nor a call in flight.
C38_KeepsPolling ==
  /\ [](poller.running
          => <>(~poller.running \/ (ReportsConnected /\ PollPending)))
  /\ [][poller.running /\ poller'.running /\ PollPending => PollPending']_vars
  /\ [](poller.running => loop.timers # {} \/ loop.calls # {})

\* a poller that could not connect at first has reconnected after the
\* backoff and is polling
C38_Witness ==
  /\ poller.running
  /\ ReportsConnected
  /\ PollPending
  /\ \E i \in DOMAIN statuses : statuses[i] = "reconnecting"
  /\ now >= BACKOFF_INITIAL_MS


\* C39: while the poller is stopped the last status reported, if any, is
\* disconnected, whatever becomes of the calls in flight at stop(), and no
\* status is reported twice in a row.
C39_StoppedStaysDisconnected ==
  /\ ~poller.running
       => statuses = <<>> \/ statuses[Len(statuses)] = "disconnected"
  /\ \A i \in 1 .. Len(statuses) - 1 : statuses[i] # statuses[i + 1]


\* the timer left armed by the call before call i
TimerBefore(log, i) == IF i = 1 THEN 0 ELSE log[i - 1].timer

\* C40: a silence timer is pending exactly when the accumulator is not
\* empty, after every call and in every state.  A push of a non-empty
\* fragment that does not complete a terminator leaves the accumulator
\* extended and the timer armed for a full threshold; flush(), the timer,
\* reset() and a push that completes a terminator leave the accumulator
\* empty and no timer; a push of the empty fragment leaves the accumulator
\* and the deadline as they were.
C40_TimerIffPending ==
  /\ poller.silenceTimer # 0 <=> poller.buffer # <<>>
  /\ \A i \in DOMAIN FramerLog :
       LET e == FramerLog[i]
           terminated == EndsInSpacedTerminator(e.before \o e.text)
       IN /\ e.timer # 0 <=> e.pending # <<>>
          /\ e.op \in {"flush", "timer", "reset"} =>
               e.pending = <<>> /\ e.timer = 0
          /\ (e.op = "push" /\ e.text # <<>> /\ terminated) =>
               e.pending = <<>> /\ e.timer = 0
          /\ (e.op = "push" /\ e.text # <<>> /\ ~terminated) =>
               /\ e.pending = e.before \o e.text
               /\ e.timer = e.at + SilenceThresholdMs
          /\ (e.op = "push" /\ e.text = <<>>) =>
               /\ e.pending = e.before
               /\ e.timer = TimerBefore(FramerLog, i)

\* a fragment is pushed and arms the timer, the empty fragment is pushed
\* later and leaves text and deadline alone, and a go-ahead then empties the
\* accumulator and cancels the timer
C40_Witness ==
  /\ Len(FramerLog) = 3
  /\ FramerLog[1].op = "push" /\ FramerLog[1].pending # <<>>
  /\ FramerLog[2].op = "push" /\ FramerLog[2].text = <<>>
  /\ FramerLog[2].at > FramerLog[1].at
  /\ FramerLog[2].timer = FramerLog[1].timer
  /\ FramerLog[3].op = "push" /\ FramerLog[3].message # <<>>
  /\ poller.buffer = <<>>
  /\ poller.silenceTimer = 0
====
